---- MODULE Spec2Model ----
(***************************************************************************)
(* Model of the machine runtime of rust-server-project:                    *)
(*   - the MachineAdapter driver loop of server-core (one detached task    *)
(*     per mailbox: connected, recv, receive, flush of the MachineSender   *)
(*     queue, disconnected), over smol channels used as mailboxes;         *)
(*   - the ServiceState lifecycle of components/service.rs;                *)
(*   - the EchoService of examples/echo-service, whose calls spawn the     *)
(*     tasks that make the transitions;                                    *)
(*   - BackgroundTask of server-core (handle, close channel, supervisor);  *)
(*   - the executor pool of server-core (EXECUTOR, get_executor,           *)
(*     stop_executors, the worker threads);                                *)
(*   - the DaisyChain driver and the Forwarder of async_machine.           *)
(* Each part has its own specification (SpecAdapter, SpecService,          *)
(* SpecEcho, SpecBackground, SpecPool, SpecChain) and leaves the           *)
(* variables of the other parts unchanged.                                 *)
(***************************************************************************)
EXTENDS Integers, Sequences, FiniteSets, TLC

(* ---------------------------- bounds ----------------------------------- *)

\* largest capacity given to a bounded mailbox
MaxCapacity == 1
\* instructions created in one run (by outside senders and by receive)
MaxInstr == 3
\* most sends one receive call enqueues through MachineSender.send
MaxBatch == 2
\* calls made on one ServiceState
MaxCalls == 5
\* NetCmds the network tasks send to the EchoService task in one run
MaxNetCmd == 2
\* connection ids (slab keys) those NetCmds name
MaxConnId == 2
\* suspension points a task wrapped in a BackgroundTask is resumed at
MaxSteps == 2
\* calls of cancel() on one BackgroundTask
MaxCancels == 2
\* most worker threads (and executors) of the pool: num_threads
MaxThreads == 3
\* calls of get_executor in one run
MaxGets == 4
\* times one worker thread comes back to the head of its loop
MaxLoops == 1
\* most machines of a DaisyChain: machine_count
MaxChain == 3
\* most messages the DaisyChain driver sends in a run: message_count
MaxMessages == 2
\* most forwarders of a ChaosMonkey mesh (machine_count; the notifier is one more)
MaxMonkeys == 2
\* largest inflection_value of a ChaosMonkey run
MaxInflection == 1
\* most calls of NetCore::start and NetCore::stop
MaxNetCalls == 3
\* most NetCmds the application sends to the NetController
MaxNetSends == 3
\* most BindTcpListener commands among them
MaxListeners == 2
\* most connections the listeners accept
MaxConns == 2
\* length of the payload of a SendBytes, and of what a peer sends
MaxBytes == 2
\* the length of the reader's buffer (vec![0u8; 1024])
ReadBufLen == 1024
\* mailboxes made by create and extend in one run
MaxChannels == 2
\* calls of set_default_channel_max in one run
MaxSets == 2
\* largest capacity given to set_default_channel_max and *_with_capacity
MaxChannelMax == 2
\* the initial value of default_channel_max (AtomicCell::new(20))
DefaultChannelMax == 20
\* messages one Forwarder receives in a run
MaxReceives == 4
\* largest seq of a TestData sent to it
MaxSeq == 2
\* largest max of a ChaosMonkey message that is advanced
MaxMax == 6

(* ---------------------------- values ----------------------------------- *)

\* the machines built: each has one mailbox and one adapter task. Two are
\* enough for a machine to send to itself, to the other one, and in a cycle
Machines == {"m1", "m2"}
Instr == 1 .. MaxInstr

\* Option::None of SendContext.1 after take(), and "no cmd at hand"
None == 0

\* capacity() of a channel made by channel::unbounded()
Unbounded == 0

\* the ServiceState enum, in declaration order
ServiceStates == <<"Init", "Started", "Running", "Draining", "Stopped">>

\* the ServerService calls main_ makes on each service, in order
EchoCalls == <<"start", "run", "drain", "stop">>

\* the NetCmds the network sends to the owner of a listener
NetCmds == [cmd : {"NewConn", "CloseConn"}, conn_id : 1 .. MaxConnId]

\* EchoService::default() and a NetCore not yet started: nothing was called,
\* no task was spawned, the state is ServiceState::default(), connection_count
\* is usize::default(); no peer has connected (streams) and no BindConn was
\* sent (bound)
EchoService_default ==
    [state       |-> "Init",
     netcore     |-> "Init",
     called      |-> 0,
     task        |-> [op \in {"start", "run", "drain", "stop"} |-> "none"],
     listener    |-> "none",
     receiver    |-> <<>>,
     produced    |-> 0,
     connections |-> {},
     connection_count |-> 0,
     streams     |-> [id \in 1 .. MaxConnId |-> "none"],
     bound       |-> {},
     visited     |-> <<"Init">>]

\* the tasks given to BackgroundTask::detach, by their labels
BgTasks == {"listener", "connection"}

\* a task was spawned for each label; detach has not been called on it
BackgroundTask_none ==
    [b \in BgTasks |->
        [handle     |-> "none",
         closed     |-> FALSE,
         t1         |-> "none",
         supervisor |-> "none",
         task       |-> "running",
         steps      |-> 0,
         cancels    |-> 0]]

\* the threads that call get_executor
Callers == {"c1", "c2"}

\* EXECUTOR once forced, with num_threads = n: n executors, one thread for
\* each, all at the head of their loop; EXECUTOR_SEED is 0
EXECUTOR(n) ==
    [n       |-> n,
     seed    |-> 0,
     stopped |-> FALSE,
     worker  |-> [w \in 1 .. n |-> [pc |-> "loop", loops |-> 0, sawClosed |-> FALSE]],
     caller  |-> [c \in Callers |-> [pc |-> "idle", next |-> 0]],
     got     |-> <<>>]

\* the values given to forwarding_multiplier (1 is the default)
Multipliers == {1, 2}

\* the receiving end of a Notify: the driver's unbounded channel, as a target
\* of a send (the forwarders are the targets 1 .. machine_count)
Notifier == 0

\* the TestMessage variants a DaisyChain and a ChaosMonkey use; a sender is
\* named by the target it sends to
TestData(seq) == [type |-> "TestData", n |-> seq]
AddSender(target) == [type |-> "AddSender", n |-> target]
AddSenders(targets) == [type |-> "AddSenders", n |-> targets]
ForwardingMultiplier(count) == [type |-> "ForwardingMultiplier", n |-> count]
Notify(target, on_receive_count) ==
    [type |-> "Notify", n |-> on_receive_count, sender |-> target]
ChaosMonkey(c, m, mut) ==
    [type |-> "ChaosMonkey", counter |-> c, max |-> m, mutation |-> mut]
RemoveAllSenders == [type |-> "RemoveAllSenders", n |-> 0]
Test == [type |-> "Test", n |-> 0]

\* ForwarderMutable::default()
ForwarderMutable_default ==
    [senders               |-> <<>>,
     received_count        |-> 0,
     send_count            |-> 0,
     notify_count          |-> 0,
     notify_sender         |-> <<>>,
     forwarding_multiplier |-> 1,
     next_seq              |-> 0]

\* b to the power e (usize::pow)
RECURSIVE pow(_, _)
pow(b, e) == IF e = 0 THEN 1 ELSE b * pow(b, e - 1)

\* a DaisyChainDriver with its fields set, its forwarders connected (each
\* with its mailbox and its adapter task), and setup not yet run
DaisyChainDriver(machines, messages, multiplier, cap) ==
    [machine_count         |-> machines,
     message_count         |-> messages,
     forwarding_multiplier |-> multiplier,
     capacity              |-> cap,
     driver   |-> [pc |-> "setup", step |-> 1, sent |-> 0],
     mbox     |-> [k \in 1 .. machines |-> <<>>],
     task     |-> [k \in 1 .. machines |-> [pc |-> "recv", queue |-> <<>>]],
     fwd      |-> [k \in 1 .. machines |-> ForwarderMutable_default],
     notifier |-> <<>>,
     emitted  |-> 0,
     counts   |-> <<>>]

\* a ChaosMonkeyDriver with its fields set, setup not yet run. Forwarders
\* 1 .. machine_count are the monkeys, forwarder machine_count + 1 is the
\* notifier; capacity is default_channel_max (bound_queue) or Unbounded;
\* receiver is the driver's unbounded channel; locked is the forwarder whose
\* data mutex the test's thread holds (0: none)
ChaosMonkeyDriver(machines, messages, inflection, cap) ==
    [machine_count    |-> machines,
     message_count    |-> messages,
     inflection_value |-> inflection,
     capacity         |-> cap,
     driver   |-> [pc |-> "setup", step |-> 1, sent |-> 0],
     mbox     |-> [k \in 1 .. machines + 1 |-> <<>>],
     task     |-> [k \in 1 .. machines + 1 |-> [pc |-> "recv", queue |-> <<>>]],
     fwd      |-> [k \in 1 .. machines + 1 |-> ForwarderMutable_default],
     receiver |-> <<>>,
     total    |-> 0,
     read     |-> 0,
     locked   |-> 0]

\* a NetCmd: BindTcpListener, BindConn, CloseConn, SendBytes, Stop go to the
\* NetController; NewConn, RecvBytes, CloseConn come from it
NetCmd(c, id, b) == [cmd |-> c, conn_id |-> id, bytes |-> b]

\* the bytes of a SendBytes, and the bytes a peer sends before it closes
Payload == [i \in 1 .. MaxBytes |-> i]

\* an empty SuperSlab
SuperSlab_new == [key \in {} |-> 0]

\* who holds the connections mutex
Holder(task, k) == [who |-> task, key |-> k]

\* NetCore::new(), with no NetController: the command channel (cmds, closed),
\* the controller task and its two slabs, the connections mutex (the tasks
\* inside it), and the mailboxes of the application and of the listeners'
\* owner
NetCore_new ==
    [state       |-> "Init",
     sender      |-> FALSE,
     cmds        |-> <<>>,
     closed      |-> FALSE,
     controller  |-> [pc |-> "none", conn_id |-> 0, bytes |-> <<>>, remaining |-> 0],
     spawned     |-> 0,
     servers     |-> SuperSlab_new,
     connections |-> SuperSlab_new,
     lock        |-> {},
     dropped     |-> FALSE,
     app         |-> <<>>,
     owner       |-> <<>>,
     calls       |-> 0,
     sends       |-> 0,
     requested   |-> {},
     accepted    |-> 0,
     failed      |-> {},
     closing     |-> {}]

\* the statics and what was built from them before any call: default_channel_max
\* and default_num_threads at their initial values, no machine, no mailbox.
\* channels[i] is the i-th mailbox made (its capacity, the machine its
\* adapter drives); made[i] records the call that made it
MachineFoundation_new ==
    [default_channel_max |-> DefaultChannelMax,
     default_num_threads |-> 0,
     machines            |-> 0,
     channels            |-> <<>>,
     made                |-> <<>>,
     sets                |-> 0,
     res                 |-> 0]

\* Forwarder::new(id) given to an adapter: the mutex is free, the data is
\* ForwarderMutable::default(). last is the message of the latest receive,
\* queue what that receive pushed on the MachineSender, panic whether it
\* panicked, receives the number of receive calls so far
Forwarder_new ==
    [data     |-> ForwarderMutable_default,
     last     |-> <<>>,
     queue    |-> <<>>,
     panic    |-> FALSE,
     receives |-> 0,
     cleared  |-> 0]

\* a ChaosMonkey message as the driver makes it, counter 0 and Increment,
\* before any advance; advances counts the calls of advance since, flips
\* the counter values at which the mutation changed
TestMessage_new(max) ==
    [msg      |-> ChaosMonkey(0, max, "Increment"),
     advances |-> 0,
     flips    |-> <<>>]

VARIABLES
    \* --- mailboxes (smol::channel) ---
    mbox,               \* mbox[m]: the instructions queued in mailbox m
    closed,             \* closed[m]: the channel is closed
    capacity,           \* capacity[m]: Unbounded, or the bound of the channel
    \* --- adapter task of mailbox m (MachineAdapter::start) ---
    pc,                 \* position of the task in the async block
    cmd,                \* the cmd recv() returned, until receive is called
    queue,              \* sender.queue: the SendContexts of MachineSender
    idx,                \* position of the for loop over sender.queue
    nextId,             \* next unused instruction value
    \* --- what the machines and mailboxes have seen (history) ---
    accepted,           \* accepted[m]: instructions accepted by mailbox m, in order
    delivered,          \* delivered[m]: cmds passed to machine.receive, in order
    connectedCalls,     \* number of machine.connected calls
    disconnectedCalls,  \* number of machine.disconnected calls
    swallowed,          \* instructions whose send returned Err, dropped by ok()
    atClose,            \* atClose[m]: what mailbox m held when it was closed
    \* --- ServiceState ---
    state,              \* the ServiceState value (*self)
    svcOp,              \* last operation called on it
    svcNotifier,        \* whether that call was given Some(notifier)
    svcPre,             \* the state when that operation was called
    svcRes,             \* the ServiceResult it returned
    observer,           \* the will_X calls the ServiceStateTransition observer got
    calls,              \* number of operations called so far
    \* --- EchoService (examples/echo-service) ---
    echo,               \* the service, the tasks its calls spawned, its channel
    \* --- BackgroundTask (server-core/background_task.rs) ---
    bg,                 \* bg[b]: the handle, its channel, t1, the supervisor, the task
    \* --- the executor pool (server-core/lib.rs) ---
    pool,               \* EXECUTOR, EXECUTOR_SEED, the worker threads, the callers
    \* --- DaisyChain (async_machine/daisy_chain.rs, forwarder.rs) ---
    chain,              \* the driver, the forwarders, their mailboxes and tasks
    \* --- ChaosMonkey (tests/driver/chaos_monkey.rs, forwarder.rs) ---
    monkey,             \* the driver, the mesh of forwarders, the notifier
    \* --- NetCore and NetController (components/network.rs) ---
    net,                \* the NetCore, the controller, its tasks, the sockets
    \* --- machine::create / extend and default_channel_max ---
    foundation,         \* the statics, the machines and the mailboxes made
    \* --- one Forwarder (async_machine/forwarder.rs) ---
    forwarder,          \* its ForwarderMutable, and what its last receive did
    \* --- one ChaosMonkey message (async_machine/test_message.rs) ---
    message             \* the message, and the advances made on it

adapterVars == <<mbox, closed, capacity, pc, cmd, queue, idx, nextId,
                 accepted, delivered, connectedCalls, disconnectedCalls, swallowed,
                 atClose>>

serviceVars == <<state, svcOp, svcNotifier, svcPre, svcRes, observer, calls>>

\* what the adapter tasks, and the ServiceState operations, leave alone
notAdapterVars == <<serviceVars, echo, bg, pool, chain, monkey, net, foundation, forwarder, message>>
notServiceVars == <<adapterVars, echo, bg, pool, chain, monkey, net, foundation, forwarder, message>>
notEchoVars == <<adapterVars, serviceVars, bg, pool, chain, monkey, net, foundation, forwarder, message>>
notBgVars == <<adapterVars, serviceVars, echo, pool, chain, monkey, net, foundation, forwarder, message>>
notPoolVars == <<adapterVars, serviceVars, echo, bg, chain, monkey, net, foundation, forwarder, message>>
notChainVars == <<adapterVars, serviceVars, echo, bg, pool, monkey, net, foundation, forwarder, message>>
notMonkeyVars == <<adapterVars, serviceVars, echo, bg, pool, chain, net, foundation, forwarder, message>>
notNetVars == <<adapterVars, serviceVars, echo, bg, pool, chain, monkey, foundation, forwarder, message>>
notFoundationVars == <<adapterVars, serviceVars, echo, bg, pool, chain, monkey, net,
                       forwarder, message>>
notForwarderVars == <<adapterVars, serviceVars, echo, bg, pool, chain, monkey, net,
                      foundation, message>>
notMessageVars == <<adapterVars, serviceVars, echo, bg, pool, chain, monkey, net,
                    foundation, forwarder>>

vars == <<adapterVars, serviceVars, echo, bg, pool, chain, monkey, net, foundation, forwarder, message>>

(* ------------------- smol::channel, used as a mailbox ------------------ *)

\* faulty variant of is_full: a bounded channel that never fills
is_full_never(q, cap) == FALSE

\* Sender::is_full: a bounded channel holding `capacity` instructions
is_full(q, cap) == cap # Unbounded /\ Len(q) >= cap

\* faulty variant of recv: hands out the newest instruction first
recv_newest(q) == [cmd |-> q[Len(q)], rest |-> SubSeq(q, 1, Len(q) - 1)]

\* Receiver::recv on a channel holding q: the oldest instruction, and the rest
recv(q) == [cmd |-> Head(q), rest |-> Tail(q)]

\* faulty variant of recv_fails: Err as soon as the channel is closed
recv_fails_when_closed(q, isClosed) == isClosed

\* Receiver::recv fails: Err(RecvError) only when closed and drained
recv_fails(q, isClosed) == isClosed /\ q = <<>>

\* Sender::send accepted by an open channel with room: queued behind the rest
send(q, c) == Append(q, c)

\* faulty variant of send_result: try_send, which gives Err on a full channel
try_send_result(q, cap, isClosed) ==
    IF isClosed \/ is_full(q, cap) THEN "Err" ELSE "Ok"

\* Sender::send(..).await on a channel holding q: Err at once when the
\* channel is closed, pending while it is full, Ok otherwise
send_result(q, cap, isClosed) ==
    IF isClosed THEN "Err" ELSE IF is_full(q, cap) THEN "Pending" ELSE "Ok"

(* --------------------------- MachineSender ----------------------------- *)

\* SendContext(sender, Some(cmd)); instr keeps the instruction it was built
\* with and by the number of the receive call that pushed it
SendContext(target, c, k) == [sender |-> target, cmd |-> c, instr |-> c, by |-> k]

\* MachineSender::send called once per element of targets, in order, with
\* instructions first, first + 1, ...: each call pushes one SendContext
RECURSIVE MachineSender_send(_, _, _, _)
MachineSender_send(q, targets, first, k) ==
    IF targets = <<>> THEN q
    ELSE MachineSender_send(Append(q, SendContext(Head(targets), first, k)),
                            Tail(targets), first + 1, k)

\* faulty variant of queue_clear: the queue keeps its SendContexts
queue_kept(q) == q

\* sender.queue.clear()
queue_clear(q) == <<>>

\* Option::take of SendContext.1 in do_send
take(ctx) == [ctx EXCEPT !.cmd = None]

\* faulty variant of for_done: the loop stops after its first do_send
for_done_after_first(q, i) == i > 1

\* the for loop over sender.queue.iter_mut() is over once i passed the end
for_done(q, i) == i > Len(q)

\* the sends a receive call may hand to MachineSender: a sequence of targets
Batches == UNION {[1 .. n -> Machines] : n \in 0 .. MaxBatch}

(* ------------------------------- Init ---------------------------------- *)

\* ServiceState::default(); no machine has been built
ServiceInit ==
    /\ mbox = [m \in Machines |-> <<>>]
    /\ closed = [m \in Machines |-> FALSE]
    /\ capacity = [m \in Machines |-> Unbounded]
    /\ pc = [m \in Machines |-> "spawned"]
    /\ cmd = [m \in Machines |-> None]
    /\ queue = [m \in Machines |-> <<>>]
    /\ idx = [m \in Machines |-> 1]
    /\ nextId = 1
    /\ accepted = [m \in Machines |-> <<>>]
    /\ delivered = [m \in Machines |-> <<>>]
    /\ connectedCalls = [m \in Machines |-> 0]
    /\ disconnectedCalls = [m \in Machines |-> 0]
    /\ swallowed = {}
    /\ atClose = [m \in Machines |-> <<>>]
    /\ state = "Init"
    /\ svcOp = "none"
    /\ svcNotifier = FALSE
    /\ svcPre = "Init"
    /\ svcRes = [ok |-> TRUE, curr |-> "-", new |-> "-"]
    /\ observer = <<>>
    /\ calls = 0
    /\ echo = EchoService_default
    /\ bg = BackgroundTask_none
    /\ pool = EXECUTOR(1)
    /\ chain = DaisyChainDriver(1, 1, 1, Unbounded)
    /\ monkey = ChaosMonkeyDriver(1, 1, 1, Unbounded)
    /\ net = NetCore_new
    /\ foundation = MachineFoundation_new
    /\ forwarder = Forwarder_new
    /\ message = TestMessage_new(0)

\* MachineBuilder::bounded / unbounded made each mailbox and MachineAdapter::start
\* spawned its task; no task has run yet. The ServiceState is not used
AdapterInit ==
    /\ mbox = [m \in Machines |-> <<>>]
    /\ closed = [m \in Machines |-> FALSE]
    /\ capacity \in [Machines -> (1 .. MaxCapacity) \cup {Unbounded}]
    /\ pc = [m \in Machines |-> "spawned"]
    /\ cmd = [m \in Machines |-> None]
    /\ queue = [m \in Machines |-> <<>>]
    /\ idx = [m \in Machines |-> 1]
    /\ nextId = 1
    /\ accepted = [m \in Machines |-> <<>>]
    /\ delivered = [m \in Machines |-> <<>>]
    /\ connectedCalls = [m \in Machines |-> 0]
    /\ disconnectedCalls = [m \in Machines |-> 0]
    /\ swallowed = {}
    /\ atClose = [m \in Machines |-> <<>>]
    /\ state = "Init"
    /\ svcOp = "none"
    /\ svcNotifier = FALSE
    /\ svcPre = "Init"
    /\ svcRes = [ok |-> TRUE, curr |-> "-", new |-> "-"]
    /\ observer = <<>>
    /\ calls = 0
    /\ echo = EchoService_default
    /\ bg = BackgroundTask_none
    /\ pool = EXECUTOR(1)
    /\ chain = DaisyChainDriver(1, 1, 1, Unbounded)
    /\ monkey = ChaosMonkeyDriver(1, 1, 1, Unbounded)
    /\ net = NetCore_new
    /\ foundation = MachineFoundation_new
    /\ forwarder = Forwarder_new
    /\ message = TestMessage_new(0)

(* ------------------------- outside the adapters ------------------------ *)

\* a holder of the Sender of mailbox m sends one instruction (send().await
\* returns once the open mailbox has room)
SenderSend(m) ==
    /\ nextId <= MaxInstr
    /\ ~closed[m]
    /\ ~is_full(mbox[m], capacity[m])
    /\ mbox' = [mbox EXCEPT ![m] = send(mbox[m], nextId)]
    /\ accepted' = [accepted EXCEPT ![m] = Append(accepted[m], nextId)]
    /\ nextId' = nextId + 1
    /\ UNCHANGED notAdapterVars
    /\ UNCHANGED <<closed, capacity, pc, cmd, queue, idx, delivered,
                   connectedCalls, disconnectedCalls, swallowed, atClose>>

\* sender.close(), or the last Sender of mailbox m is dropped
SenderClose(m) ==
    /\ ~closed[m]
    /\ closed' = [closed EXCEPT ![m] = TRUE]
    /\ atClose' = [atClose EXCEPT ![m] = mbox[m]]
    /\ UNCHANGED notAdapterVars
    /\ UNCHANGED <<mbox, capacity, pc, cmd, queue, idx, nextId, accepted,
                   delivered, connectedCalls, disconnectedCalls, swallowed>>

(* ------------------- the task of MachineAdapter::start ----------------- *)

\* faulty variant of Connected: the task goes to its loop without the call
Connected_skipped(a) ==
    /\ pc[a] = "spawned"
    /\ queue' = [queue EXCEPT ![a] = <<>>]
    /\ pc' = [pc EXCEPT ![a] = "recv"]
    /\ UNCHANGED notAdapterVars
    /\ UNCHANGED <<mbox, closed, capacity, cmd, idx, nextId, accepted, delivered,
                   connectedCalls, disconnectedCalls, swallowed, atClose>>

\* machine.connected(id); let mut sender = MachineSender::default()
Connected(a) ==
    /\ pc[a] = "spawned"
    /\ connectedCalls' = [connectedCalls EXCEPT ![a] = @ + 1]
    /\ queue' = [queue EXCEPT ![a] = <<>>]
    /\ pc' = [pc EXCEPT ![a] = "recv"]
    /\ UNCHANGED notAdapterVars
    /\ UNCHANGED <<mbox, closed, capacity, cmd, idx, nextId, accepted,
                   delivered, disconnectedCalls, swallowed, atClose>>

\* faulty variant of Machine_receive: the machine is taken exclusively, so
\* no receive starts while another adapter of the machine is inside receive
Machine_receive_exclusive(inside) == inside = {}

\* Machine::receive(&self, cmd, sender) on the Arc the adapter holds: a shared
\* borrow, given whatever adapters of the same machine are inside receive
\* (create and extend hand clones of one Arc to the adapters of one machine)
Machine_receive(inside) == TRUE

\* while let Ok(cmd) = r.recv().await: an instruction is there, and
\* receive is entered with it
RecvOk(a) ==
    /\ pc[a] = "recv"
    /\ mbox[a] # <<>>
    /\ Machine_receive({m \in Machines \ {a} : pc[m] = "receive"})
    /\ cmd' = [cmd EXCEPT ![a] = recv(mbox[a]).cmd]
    /\ mbox' = [mbox EXCEPT ![a] = recv(mbox[a]).rest]
    /\ pc' = [pc EXCEPT ![a] = "receive"]
    /\ UNCHANGED notAdapterVars
    /\ UNCHANGED <<closed, capacity, queue, idx, nextId, accepted, delivered,
                   connectedCalls, disconnectedCalls, swallowed, atClose>>

\* r.recv().await returns Err: the while loop ends
RecvErr(a) ==
    /\ pc[a] = "recv"
    /\ recv_fails(mbox[a], closed[a])
    /\ pc' = [pc EXCEPT ![a] = "closing"]
    /\ UNCHANGED notAdapterVars
    /\ UNCHANGED <<mbox, closed, capacity, cmd, queue, idx, nextId, accepted,
                   delivered, connectedCalls, disconnectedCalls, swallowed, atClose>>

\* sender.queue.clear(); machine.receive(cmd, &mut sender): the machine
\* enqueues one send per element of targets; then the for loop starts
Receive(a, targets) ==
    /\ pc[a] = "receive"
    /\ nextId + Len(targets) <= MaxInstr + 1
    /\ LET k == Len(delivered[a]) + 1
           q == MachineSender_send(queue_clear(queue[a]), targets, nextId, k)
       IN /\ queue' = [queue EXCEPT ![a] = q]
          /\ pc' = [pc EXCEPT ![a] = IF for_done(q, 1) THEN "recv" ELSE "flush"]
    /\ delivered' = [delivered EXCEPT ![a] = Append(delivered[a], cmd[a])]
    /\ cmd' = [cmd EXCEPT ![a] = None]
    /\ idx' = [idx EXCEPT ![a] = 1]
    /\ nextId' = nextId + Len(targets)
    /\ UNCHANGED notAdapterVars
    /\ UNCHANGED <<mbox, closed, capacity, accepted, connectedCalls,
                   disconnectedCalls, swallowed, atClose>>

\* faulty variant of Result_ok: an Err leaves the for loop
Result_ok_or_break(res) == res # "Err"

\* .ok() on the Result of the send: Ok and Err alike become an Option that is
\* dropped, and the for loop goes on
Result_ok(res) == TRUE

\* s.do_send().await for the SendContext at the loop position:
\* self.0.send(self.1.take().unwrap()).await.ok(). The send waits while the
\* open target is full; an Err (target closed) is dropped by ok()
DoSend(a) ==
    /\ pc[a] = "flush"
    /\ idx[a] <= Len(queue[a])
    /\ LET ctx == queue[a][idx[a]]
           t == ctx.sender
           q == [queue[a] EXCEPT ![idx[a]] = take(ctx)]
           res == send_result(mbox[t], capacity[t], closed[t])
       IN /\ ctx.cmd # None
          /\ \/ /\ res = "Err"
                /\ swallowed' = swallowed \cup {ctx.cmd}
                /\ UNCHANGED <<mbox, accepted>>
             \/ /\ res = "Ok"
                /\ mbox' = [mbox EXCEPT ![t] = send(mbox[t], ctx.cmd)]
                /\ accepted' = [accepted EXCEPT ![t] = Append(accepted[t], ctx.cmd)]
                /\ UNCHANGED swallowed
          /\ queue' = [queue EXCEPT ![a] = q]
          /\ idx' = [idx EXCEPT ![a] = @ + 1]
          /\ pc' = [pc EXCEPT ![a] = IF for_done(q, idx[a] + 1) \/ ~Result_ok(res)
                                     THEN "recv" ELSE "flush"]
    /\ UNCHANGED notAdapterVars
    /\ UNCHANGED <<closed, capacity, cmd, nextId, delivered, connectedCalls,
                   disconnectedCalls, atClose>>

\* faulty variant of Disconnected: the task polls the mailbox again
Disconnected_then_poll(a) ==
    /\ pc[a] = "closing"
    /\ disconnectedCalls' = [disconnectedCalls EXCEPT ![a] = IF @ < 2 THEN @ + 1 ELSE @]
    /\ pc' = [pc EXCEPT ![a] = "recv"]
    /\ UNCHANGED notAdapterVars
    /\ UNCHANGED <<mbox, closed, capacity, cmd, queue, idx, nextId, accepted,
                   delivered, connectedCalls, swallowed, atClose>>

\* machine.disconnected(); the task ends
Disconnected(a) ==
    /\ pc[a] = "closing"
    /\ disconnectedCalls' = [disconnectedCalls EXCEPT ![a] = @ + 1]
    /\ pc' = [pc EXCEPT ![a] = "done"]
    /\ UNCHANGED notAdapterVars
    /\ UNCHANGED <<mbox, closed, capacity, cmd, queue, idx, nextId, accepted,
                   delivered, connectedCalls, swallowed, atClose>>

\* the steps of the adapter task of mailbox a
AdapterTask(a) ==
    \/ Connected(a)
    \/ RecvOk(a)
    \/ RecvErr(a)
    \/ \E targets \in Batches : Receive(a, targets)
    \/ DoSend(a)
    \/ Disconnected(a)

AdapterNext ==
    \/ \E m \in Machines : SenderSend(m)
    \/ \E m \in Machines : SenderClose(m)
    \/ \E a \in Machines : AdapterTask(a)

SpecAdapter == AdapterInit /\ [][AdapterNext]_vars

(* ---------------------------- ServiceState ----------------------------- *)

\* position of a state in the enum (Init, Started, Running, Draining, Stopped)
Index(s) == CHOOSE i \in 1 .. Len(ServiceStates) : ServiceStates[i] = s

\* faulty variant of can_start: a service may be started again unless stopped
can_start_again(s) == s # "Stopped"

can_start(s) == s = "Init"

\* faulty variant of can_run: run is also let through from Init
can_run_unstarted(s) == s \in {"Init", "Started"}

can_run(s) == s = "Started"

can_drain(s) == s = "Running"

\* faulty variant of can_stop: no guard at all
can_stop_always(s) == TRUE

can_stop(s) == s # "Stopped"

is_running(s) == s = "Running"

\* Ok(())
Ok == [ok |-> TRUE, curr |-> "-", new |-> "-"]

\* Err(ServiceError::InvalidStateTransition(curr, new))
InvalidStateTransition(c, n) == [ok |-> FALSE, curr |-> c, new |-> n]

\* a call of operation op: counted, and recorded with the state it found
Called(op, on_transition) ==
    /\ calls < MaxCalls
    /\ calls' = calls + 1
    /\ svcOp' = op
    /\ svcNotifier' = on_transition
    /\ svcPre' = state
    /\ UNCHANGED notServiceVars

\* the state each operation enters, by the name of its callback
Entered(callback) ==
    CASE callback = "will_start" -> "Started"
      [] callback = "will_run" -> "Running"
      [] callback = "will_drain" -> "Draining"
      [] callback = "will_stop" -> "Stopped"

\* faulty variant of Notified: the observer is called after *self was set
Notified_after(on_transition, callback) ==
    IF on_transition THEN Append(observer, <<callback, Entered(callback)>>) ELSE observer

\* notifier.will_X(&self), when an observer was passed (Some(notifier))
Notified(on_transition, callback) ==
    IF on_transition THEN Append(observer, <<callback, state>>) ELSE observer

\* faulty variant of start_with_notification: the observer is called before
\* the guard is tested
start_notifies_first(on_transition) ==
    /\ Called("start", on_transition)
    /\ observer' = Notified(on_transition, "will_start")
    /\ IF can_start(state)
       THEN /\ state' = "Started"
            /\ svcRes' = Ok
       ELSE /\ svcRes' = InvalidStateTransition(state, "Started")
            /\ UNCHANGED state

\* start() is start_with_notification(None)
start_with_notification(on_transition) ==
    /\ Called("start", on_transition)
    /\ IF can_start(state)
       THEN /\ observer' = Notified(on_transition, "will_start")
            /\ state' = "Started"
            /\ svcRes' = Ok
       ELSE /\ svcRes' = InvalidStateTransition(state, "Started")
            /\ UNCHANGED <<state, observer>>

\* run() is run_with_notification(None)
run_with_notification(on_transition) ==
    /\ Called("run", on_transition)
    /\ IF can_run(state)
       THEN /\ observer' = Notified(on_transition, "will_run")
            /\ state' = "Running"
            /\ svcRes' = Ok
       ELSE /\ svcRes' = InvalidStateTransition(state, "Started")
            /\ UNCHANGED <<state, observer>>

\* drain() is drain_with_notification(None)
drain_with_notification(on_transition) ==
    /\ Called("drain", on_transition)
    /\ IF can_drain(state)
       THEN /\ observer' = Notified(on_transition, "will_drain")
            /\ state' = "Draining"
            /\ svcRes' = Ok
       ELSE /\ svcRes' = InvalidStateTransition(state, "Started")
            /\ UNCHANGED <<state, observer>>

\* stop() is stop_with_notification(None)
stop_with_notification(on_transition) ==
    /\ Called("stop", on_transition)
    /\ IF can_stop(state)
       THEN /\ observer' = Notified(on_transition, "will_stop")
            /\ state' = "Stopped"
            /\ svcRes' = Ok
       ELSE /\ svcRes' = InvalidStateTransition(state, "Started")
            /\ UNCHANGED <<state, observer>>

ServiceNext ==
    \/ \E n \in BOOLEAN : start_with_notification(n)
    \/ \E n \in BOOLEAN : run_with_notification(n)
    \/ \E n \in BOOLEAN : drain_with_notification(n)
    \/ \E n \in BOOLEAN : stop_with_notification(n)

SpecService == ServiceInit /\ [][ServiceNext]_vars

(* --------------------- EchoService (ServerService) --------------------- *)

\* the value of a ServiceState after start(), run(), drain() or stop() was
\* called on it and the ServiceResult was dropped
ServiceState_after(op, s) ==
    CASE op = "start" -> IF can_start(s) THEN "Started" ELSE s
      [] op = "run"   -> IF can_run(s) THEN "Running" ELSE s
      [] op = "drain" -> IF can_drain(s) THEN "Draining" ELSE s
      [] op = "stop"  -> IF can_stop(s) THEN "Stopped" ELSE s

\* NetCore::start: Init goes to Started, the controller task is spawned and
\* the state goes to Running; in any other state the call returns at once
NetCore_start(s) ==
    IF can_start(s) THEN ServiceState_after("run", ServiceState_after("start", s)) ELSE s

\* Controller::handle_cmd on the connections map
handle_cmd(connections, c) ==
    CASE c.cmd = "NewConn"   -> connections \cup {c.conn_id}
      [] c.cmd = "CloseConn" -> connections \ {c.conn_id}

\* the conn_ids Controller::handle_cmd sends to the NetCore in a BindConn
handle_cmd_binds(bound, c) ==
    IF c.cmd = "NewConn" THEN bound \cup {c.conn_id} ELSE bound

\* EchoService::get_drain_count
get_drain_count(service) == service.connection_count

\* ServerService::is_drained (the default method of the trait)
is_drained(service) == get_drain_count(service) = 0

\* main_ has made no call yet
EchoInit ==
    /\ mbox = [m \in Machines |-> <<>>]
    /\ closed = [m \in Machines |-> FALSE]
    /\ capacity = [m \in Machines |-> Unbounded]
    /\ pc = [m \in Machines |-> "spawned"]
    /\ cmd = [m \in Machines |-> None]
    /\ queue = [m \in Machines |-> <<>>]
    /\ idx = [m \in Machines |-> 1]
    /\ nextId = 1
    /\ accepted = [m \in Machines |-> <<>>]
    /\ delivered = [m \in Machines |-> <<>>]
    /\ connectedCalls = [m \in Machines |-> 0]
    /\ disconnectedCalls = [m \in Machines |-> 0]
    /\ swallowed = {}
    /\ atClose = [m \in Machines |-> <<>>]
    /\ state = "Init"
    /\ svcOp = "none"
    /\ svcNotifier = FALSE
    /\ svcPre = "Init"
    /\ svcRes = [ok |-> TRUE, curr |-> "-", new |-> "-"]
    /\ observer = <<>>
    /\ calls = 0
    /\ echo = EchoService_default
    /\ bg = BackgroundTask_none
    /\ pool = EXECUTOR(1)
    /\ chain = DaisyChainDriver(1, 1, 1, Unbounded)
    /\ monkey = ChaosMonkeyDriver(1, 1, 1, Unbounded)
    /\ net = NetCore_new
    /\ foundation = MachineFoundation_new
    /\ forwarder = Forwarder_new
    /\ message = TestMessage_new(0)

\* main_ makes its next call on the service. Each of start, run, drain, stop
\* spawns a detached task that will make the transition and returns Ok(());
\* start also starts the NetCore and spawns the task that owns the listener
EchoService_call(op) ==
    /\ echo.called < Len(EchoCalls)
    /\ op = EchoCalls[echo.called + 1]
    /\ echo' = [echo EXCEPT
                  !.called = @ + 1,
                  !.task[op] = "spawned",
                  !.netcore = IF op = "start" THEN NetCore_start(@) ELSE @,
                  !.listener = IF op = "start" THEN "spawned" ELSE @]
    /\ UNCHANGED notEchoVars

\* the task spawned by the call of op runs: it locks the state, calls op on
\* it, drops the result and unlocks
EchoService_task(op) ==
    /\ echo.task[op] = "spawned"
    /\ LET after == ServiceState_after(op, echo.state)
       IN  echo' = [echo EXCEPT
                      !.task[op] = "done",
                      !.state = after,
                      !.visited = IF after = echo.state THEN @ ELSE Append(@, after)]
    /\ UNCHANGED notEchoVars

\* the listener's task starts: it makes its channel and sends its Sender to
\* the NetCore in BindTcpListener
EchoService_listen ==
    /\ echo.listener = "spawned"
    /\ echo' = [echo EXCEPT !.listener = "recv"]
    /\ UNCHANGED notEchoVars

\* a task of the network sends a NetCmd to the listener's owner: the accept
\* loop sends NewConn for a stream it has put in a vacant slab entry, the
\* reader of a bound connection sends CloseConn when read returns Ok(0) or Err
NetSend(c) ==
    /\ echo.listener # "spawned"
    /\ echo.listener # "none"
    /\ echo.produced < MaxNetCmd
    /\ IF c.cmd = "NewConn"
       THEN echo.streams[c.conn_id] = "none"
       ELSE echo.streams[c.conn_id] = "open" /\ c.conn_id \in echo.bound
    /\ echo' = [echo EXCEPT
                  !.receiver = Append(@, c),
                  !.produced = @ + 1,
                  !.streams[c.conn_id] = IF c.cmd = "NewConn" THEN "open" ELSE "eof"]
    /\ UNCHANGED notEchoVars

\* the listener's task receives a NetCmd, copies the state under the lock and
\* acts on it: handled when Running, the loop is left when Stopped, and the
\* NetCmd is dropped otherwise
EchoService_recv ==
    /\ echo.listener = "recv"
    /\ echo.receiver # <<>>
    /\ LET c == Head(echo.receiver)
       IN  echo' = [echo EXCEPT
                      !.receiver = Tail(@),
                      !.connections = IF is_running(echo.state) THEN handle_cmd(@, c) ELSE @,
                      !.bound = IF is_running(echo.state) THEN handle_cmd_binds(@, c) ELSE @,
                      !.listener = IF echo.state = "Stopped" THEN "done" ELSE @]
    /\ UNCHANGED notEchoVars

EchoNext ==
    \/ \E op \in DOMAIN EchoService_default.task : EchoService_call(op)
    \/ \E op \in DOMAIN EchoService_default.task : EchoService_task(op)
    \/ EchoService_listen
    \/ \E c \in NetCmds : NetSend(c)
    \/ EchoService_recv

SpecEcho == EchoInit /\ [][EchoNext]_vars

(* ---------------------------- BackgroundTask --------------------------- *)

\* faulty variant of close: the channel stays as it was
close_kept(isClosed) == isClosed

\* Sender::close on the channel of a BackgroundTask
close(isClosed) == TRUE

\* drop of a Sender: the channel is closed when its last Sender is dropped.
\* The BackgroundTask holds the only Sender of its channel
Sender_drop(isClosed) == TRUE

\* drop of a smol::Task that was not detached: a task still running is
\* cancelled (dropped at the suspension point it is at)
Task_drop(t) == IF t = "running" THEN "dropped" ELSE t

\* a task was spawned for each label (it runs); detach has not been called
BackgroundInit ==
    /\ mbox = [m \in Machines |-> <<>>]
    /\ closed = [m \in Machines |-> FALSE]
    /\ capacity = [m \in Machines |-> Unbounded]
    /\ pc = [m \in Machines |-> "spawned"]
    /\ cmd = [m \in Machines |-> None]
    /\ queue = [m \in Machines |-> <<>>]
    /\ idx = [m \in Machines |-> 1]
    /\ nextId = 1
    /\ accepted = [m \in Machines |-> <<>>]
    /\ delivered = [m \in Machines |-> <<>>]
    /\ connectedCalls = [m \in Machines |-> 0]
    /\ disconnectedCalls = [m \in Machines |-> 0]
    /\ swallowed = {}
    /\ atClose = [m \in Machines |-> <<>>]
    /\ state = "Init"
    /\ svcOp = "none"
    /\ svcNotifier = FALSE
    /\ svcPre = "Init"
    /\ svcRes = [ok |-> TRUE, curr |-> "-", new |-> "-"]
    /\ observer = <<>>
    /\ calls = 0
    /\ echo = EchoService_default
    /\ bg = BackgroundTask_none
    /\ pool = EXECUTOR(1)
    /\ chain = DaisyChainDriver(1, 1, 1, Unbounded)
    /\ monkey = ChaosMonkeyDriver(1, 1, 1, Unbounded)
    /\ net = NetCore_new
    /\ foundation = MachineFoundation_new
    /\ forwarder = Forwarder_new
    /\ message = TestMessage_new(0)

\* BackgroundTask::detach(task, label): makes the channel, spawns t1 (which
\* awaits recv on it) and the supervisor (which selects over t1 and the
\* task), and returns the handle holding the Sender
detach(b) ==
    /\ bg[b].handle = "none"
    /\ bg' = [bg EXCEPT ![b].handle = "held",
                        ![b].t1 = "recv",
                        ![b].supervisor = "select"]
    /\ UNCHANGED notBgVars

\* BackgroundTask::cancel(&self)
cancel(b) ==
    /\ bg[b].handle = "held"
    /\ bg[b].cancels < MaxCancels
    /\ bg' = [bg EXCEPT ![b].closed = close(@), ![b].cancels = @ + 1]
    /\ UNCHANGED notBgVars

\* the owner drops the BackgroundTask, and with it the Sender
DropHandle(b) ==
    /\ bg[b].handle = "held"
    /\ bg' = [bg EXCEPT ![b].handle = "dropped", ![b].closed = Sender_drop(@)]
    /\ UNCHANGED notBgVars

\* t1: receiver.recv().await returns Err once the channel is closed (nothing
\* is ever sent on it), and unwrap_or_else makes it ()
T1_recv(b) ==
    /\ bg[b].t1 = "recv"
    /\ bg[b].closed
    /\ bg' = [bg EXCEPT ![b].t1 = "done"]
    /\ UNCHANGED notBgVars

\* the wrapped task is resumed at a suspension point and runs to the next
Task_step(b) ==
    /\ bg[b].task = "running"
    /\ bg[b].steps < MaxSteps
    /\ bg' = [bg EXCEPT ![b].steps = @ + 1]
    /\ UNCHANGED notBgVars

\* the wrapped task completes by itself
Task_complete(b) ==
    /\ bg[b].task = "running"
    /\ bg' = [bg EXCEPT ![b].task = "completed"]
    /\ UNCHANGED notBgVars

\* the supervisor: select! completes when t1 or the task has completed; the
\* async block ends and drops t1 and t2, the Task handles it owns
Supervisor_select(b) ==
    /\ bg[b].supervisor = "select"
    /\ bg[b].t1 = "done" \/ bg[b].task = "completed"
    /\ bg' = [bg EXCEPT ![b].supervisor = "done",
                        ![b].t1 = IF @ = "recv" THEN "dropped" ELSE @,
                        ![b].task = Task_drop(@)]
    /\ UNCHANGED notBgVars

BackgroundNext ==
    \/ \E b \in BgTasks : detach(b)
    \/ \E b \in BgTasks : cancel(b)
    \/ \E b \in BgTasks : DropHandle(b)
    \/ \E b \in BgTasks : T1_recv(b)
    \/ \E b \in BgTasks : Task_step(b)
    \/ \E b \in BgTasks : Task_complete(b)
    \/ \E b \in BgTasks : Supervisor_select(b)

SpecBackground == BackgroundInit /\ [][BackgroundNext]_vars

\* the executors run every task that is ready: t1 once its recv can return,
\* the supervisor once one branch of its select is ready
SpecBackgroundFair ==
    /\ SpecBackground
    /\ \A b \in BgTasks : WF_vars(T1_recv(b)) /\ WF_vars(Supervisor_select(b))

(* --------------------------- the executor pool ------------------------- *)

\* faulty variant of executor_index: counts the executors from the seed's
\* successor
executor_index_next(next, len) == (next + 1) % len

\* idx = next % EXECUTOR.0.len()
executor_index(next, len) == next % len

\* EXECUTOR was forced with num_threads threads: default_num_threads, or the
\* number of CPUs if that is 0. No call of get_executor was made
PoolInit ==
    /\ mbox = [m \in Machines |-> <<>>]
    /\ closed = [m \in Machines |-> FALSE]
    /\ capacity = [m \in Machines |-> Unbounded]
    /\ pc = [m \in Machines |-> "spawned"]
    /\ cmd = [m \in Machines |-> None]
    /\ queue = [m \in Machines |-> <<>>]
    /\ idx = [m \in Machines |-> 1]
    /\ nextId = 1
    /\ accepted = [m \in Machines |-> <<>>]
    /\ delivered = [m \in Machines |-> <<>>]
    /\ connectedCalls = [m \in Machines |-> 0]
    /\ disconnectedCalls = [m \in Machines |-> 0]
    /\ swallowed = {}
    /\ atClose = [m \in Machines |-> <<>>]
    /\ state = "Init"
    /\ svcOp = "none"
    /\ svcNotifier = FALSE
    /\ svcPre = "Init"
    /\ svcRes = [ok |-> TRUE, curr |-> "-", new |-> "-"]
    /\ observer = <<>>
    /\ calls = 0
    /\ echo = EchoService_default
    /\ bg = BackgroundTask_none
    /\ pool \in {EXECUTOR(num_threads) : num_threads \in 1 .. MaxThreads}
    /\ chain = DaisyChainDriver(1, 1, 1, Unbounded)
    /\ monkey = ChaosMonkeyDriver(1, 1, 1, Unbounded)
    /\ net = NetCore_new
    /\ foundation = MachineFoundation_new
    /\ forwarder = Forwarder_new
    /\ message = TestMessage_new(0)

\* get_executor, first line: next = EXECUTOR_SEED.fetch_add(1, SeqCst)
get_executor_fetch_add(c) ==
    /\ pool.caller[c].pc = "idle"
    /\ pool.seed < MaxGets
    /\ pool' = [pool EXCEPT !.seed = @ + 1,
                            !.caller[c] = [pc |-> "fetched", next |-> pool.seed],
                            !.got = Append(@, [done |-> FALSE, idx |-> 0])]
    /\ UNCHANGED notPoolVars

\* get_executor, the rest: idx = next % len; EXECUTOR.0[idx].clone() is
\* returned. got[next + 1] records the executor the call with seed value
\* next returned
get_executor_return(c) ==
    /\ pool.caller[c].pc = "fetched"
    /\ pool' = [pool EXCEPT
                  !.caller[c].pc = "idle",
                  !.got[pool.caller[c].next + 1] =
                       [done |-> TRUE,
                        idx  |-> executor_index(pool.caller[c].next, pool.n)]]
    /\ UNCHANGED notPoolVars

\* stop_executors: EXECUTOR.2.close()
stop_executors ==
    /\ ~pool.stopped
    /\ pool' = [pool EXCEPT !.stopped = TRUE]
    /\ UNCHANGED notPoolVars

\* a worker thread, at the head of its loop, enters
\* block_on(e.run(async { r.recv().await }))
Worker_run(w) ==
    /\ w \in DOMAIN pool.worker
    /\ pool.worker[w].pc = "loop"
    /\ pool' = [pool EXCEPT !.worker[w].pc = "run"]
    /\ UNCHANGED notPoolVars

\* r.recv() returns Err on the closed channel (nothing is ever sent on it):
\* e.run and block_on return, ok() drops the result and the loop, which has
\* no break, goes round
Worker_recv_err(w) ==
    /\ w \in DOMAIN pool.worker
    /\ pool.worker[w].pc = "run"
    /\ pool.stopped
    /\ pool.worker[w].loops < MaxLoops
    /\ pool' = [pool EXCEPT !.worker[w] =
                    [pc |-> "loop", loops |-> @.loops + 1, sawClosed |-> TRUE]]
    /\ UNCHANGED notPoolVars

\* a task run by e.run panics: catch_unwind returns Err, ok() drops it and
\* the loop goes round
Worker_panic(w) ==
    /\ w \in DOMAIN pool.worker
    /\ pool.worker[w].pc = "run"
    /\ pool.worker[w].loops < MaxLoops
    /\ pool' = [pool EXCEPT !.worker[w].pc = "loop",
                            !.worker[w].loops = @ + 1]
    /\ UNCHANGED notPoolVars

PoolNext ==
    \/ \E c \in Callers : get_executor_fetch_add(c)
    \/ \E c \in Callers : get_executor_return(c)
    \/ stop_executors
    \/ \E w \in 1 .. MaxThreads : Worker_run(w)
    \/ \E w \in 1 .. MaxThreads : Worker_recv_err(w)
    \/ \E w \in 1 .. MaxThreads : Worker_panic(w)

SpecPool == PoolInit /\ [][PoolNext]_vars

(* ------------------------ Forwarder and DaisyChain --------------------- *)

\* ForwarderMutable::handle_config: [ok, data]; ok is FALSE (Err(msg)) for a
\* message that is not a configuration message
handle_config(data, msg) ==
    CASE msg.type = "Notify" ->
            [ok |-> TRUE,
             data |-> [data EXCEPT !.notify_sender = <<msg.sender>>,
                                   !.notify_count = msg.n]]
      [] msg.type = "AddSender" ->
            [ok |-> TRUE, data |-> [data EXCEPT !.senders = Append(@, msg.n)]]
      [] msg.type = "AddSenders" ->
            [ok |-> TRUE, data |-> [data EXCEPT !.senders = msg.n]]
      [] msg.type = "ForwardingMultiplier" ->
            [ok |-> TRUE, data |-> [data EXCEPT !.forwarding_multiplier = msg.n]]
      [] msg.type = "RemoveAllSenders" ->
            [ok |-> TRUE, data |-> [data EXCEPT !.senders = <<>>, !.notify_sender = <<>>]]
      [] OTHER -> [ok |-> FALSE, data |-> data]

\* faulty variant of validate_sequence: counts an accepted message twice
validate_sequence_twice(data, msg) ==
    IF msg.type = "TestData" /\ msg.n # data.next_seq /\ msg.n # 0
    THEN [ok |-> FALSE, data |-> data]
    ELSE [ok |-> TRUE,
          data |-> [data EXCEPT !.next_seq = IF msg.n = @ THEN @ + 1 ELSE 1,
                                !.received_count = @ + 2]]

\* faulty variant of validate_sequence: a seq beyond next_seq is accepted and
\* followed
validate_sequence_gaps(data, msg) ==
    IF msg.type = "TestData" /\ msg.n < data.next_seq /\ msg.n # 0
    THEN [ok |-> FALSE, data |-> data]
    ELSE [ok |-> TRUE,
          data |-> [data EXCEPT
                      !.next_seq = IF msg.type # "TestData" THEN @ ELSE msg.n + 1,
                      !.received_count = @ + 1]]

\* ForwarderMutable::validate_sequence: [ok, data]; TestData(seq) is accepted
\* if seq is next_seq, or if seq is 0 (next_seq restarts at 1); an accepted
\* message is counted
validate_sequence(data, msg) ==
    IF msg.type = "TestData" /\ msg.n # data.next_seq /\ msg.n # 0
    THEN [ok |-> FALSE, data |-> data]
    ELSE [ok |-> TRUE,
          data |-> [data EXCEPT
                      !.next_seq = IF msg.type # "TestData" THEN @
                                   ELSE IF msg.n = @ THEN @ + 1 ELSE 1,
                      !.received_count = @ + 1]]

\* TestMessage::can_advance
can_advance(msg) ==
    msg.type = "ChaosMonkey" /\ (msg.counter # 0 \/ msg.mutation # "Decrement")

\* faulty variant of advance_chaos_monkey: the arm for counter 0 is missing,
\* so a Decrement at counter 0 is advanced like any other
advance_chaos_monkey_past_zero(counter, max, mutation) ==
    IF counter >= max
    THEN IF mutation = "Increment"
         THEN ChaosMonkey(counter, max, "Decrement")
         ELSE ChaosMonkey(IF counter = 0 THEN 1 ELSE counter - 1, max, mutation)
    ELSE IF mutation = "Increment"
         THEN ChaosMonkey(counter + 1, max, mutation)
         ELSE ChaosMonkey(IF counter = 0 THEN 1 ELSE counter - 1, max, mutation)

\* TestMessage::advance_chaos_monkey: the arms for counter 0, for counter at
\* or above max, and for the counters between
advance_chaos_monkey(counter, max, mutation) ==
    CASE counter = 0 ->
            IF mutation = "Increment"
            THEN ChaosMonkey(counter + 1, max, mutation)
            ELSE ChaosMonkey(counter, max, mutation)
      [] counter # 0 /\ counter >= max ->
            IF mutation = "Increment"
            THEN ChaosMonkey(counter, max, "Decrement")
            ELSE ChaosMonkey(counter - 1, max, mutation)
      [] OTHER ->
            IF mutation = "Increment"
            THEN ChaosMonkey(counter + 1, max, mutation)
            ELSE ChaosMonkey(counter - 1, max, mutation)

\* TestMessage::advance
advance(msg) ==
    IF msg.type = "ChaosMonkey"
    THEN advance_chaos_monkey(msg.counter, msg.max, msg.mutation)
    ELSE msg

\* ForwarderMutable::get_monkey_fwd: the indices range can sample (0 .. len in
\* the source, where indices start at 0)
get_monkey_fwd(data) == 1 .. Len(data.senders)

\* ForwarderMutable::handle_action: [data, queue], where sample is what
\* get_monkey_fwd returns when it is called. A ChaosMonkey that can advance is
\* advanced and pushed for senders[sample]; one that cannot makes TestData(0) for
\* the notify_sender; for TestData, to each sender in turn,
\* forwarding_multiplier times, TestData(send_count) is pushed on the
\* MachineSender and send_count is incremented; any other message (Test) is
\* pushed as it is, to each sender forwarding_multiplier times
handle_action(data, msg, sample) ==
    LET n == Len(data.senders) * data.forwarding_multiplier
    IN  CASE msg.type = "ChaosMonkey" /\ can_advance(msg) ->
                [data  |-> data,
                 queue |-> <<[to |-> data.senders[sample], msg |-> advance(msg)]>>]
          [] msg.type = "ChaosMonkey" /\ ~can_advance(msg) ->
                [data  |-> data,
                 queue |-> IF data.notify_sender # <<>>
                           THEN <<[to |-> Head(data.notify_sender), msg |-> TestData(0)]>>
                           ELSE <<>>]
          [] msg.type = "TestData" ->
                [data  |-> [data EXCEPT !.send_count = @ + n],
                 queue |-> [i \in 1 .. n |->
                       [to  |-> data.senders[((i - 1) \div data.forwarding_multiplier) + 1],
                        msg |-> TestData(data.send_count + i - 1)]]]
          [] OTHER ->
                [data  |-> data,
                 queue |-> [i \in 1 .. n |->
                       [to  |-> data.senders[((i - 1) \div data.forwarding_multiplier) + 1],
                        msg |-> msg]]]

\* faulty variant of handle_notification: notifies after every action
handle_notification_always(data, q) ==
    IF data.notify_sender # <<>>
    THEN Append(q, [to |-> Head(data.notify_sender),
                    msg |-> TestData(data.received_count)])
    ELSE q

\* faulty variant of handle_notification: notifies from notify_count on
handle_notification_from(data, q) ==
    IF data.received_count >= data.notify_count /\ data.notify_sender # <<>>
    THEN Append(q, [to |-> Head(data.notify_sender),
                    msg |-> TestData(data.received_count)])
    ELSE q

\* ForwarderMutable::handle_notification: the sends after it
handle_notification(data, q) ==
    IF data.received_count = data.notify_count /\ data.notify_sender # <<>>
    THEN Append(q, [to |-> Head(data.notify_sender),
                    msg |-> TestData(data.received_count)])
    ELSE q

\* Mutex::try_lock of the data of forwarder k: TRUE if no other thread holds
\* it (locked is the forwarder whose data the test's thread holds)
try_lock(locked, k) == locked # k

\* Forwarder::receive: [panic, data, queue]; sample is what get_monkey_fwd
\* returns when handle_action calls it
Forwarder_receive(data, msg, sample) ==
    LET config == handle_config(data, msg)
        valid  == validate_sequence(data, msg)
        action == handle_action(valid.data, msg, sample)
    IN  IF config.ok
        THEN [panic |-> FALSE, data |-> config.data, queue |-> <<>>]
        ELSE IF valid.ok
        THEN [panic |-> FALSE,
              data  |-> action.data,
              queue |-> handle_notification(action.data, action.queue)]
        ELSE [panic |-> TRUE, data |-> data, queue |-> <<>>]

\* DaisyChainDriver::setup: the sends it makes, in order
setup_sends(c) ==
    LET config == [i \in 1 .. 2 * (c.machine_count - 1) |->
                      IF i % 2 = 1
                      THEN [to |-> (i + 1) \div 2, msg |-> AddSender((i + 1) \div 2 + 1)]
                      ELSE [to |-> i \div 2,
                            msg |-> ForwardingMultiplier(c.forwarding_multiplier)]]
        exepected_message_count ==
            c.message_count * pow(c.forwarding_multiplier, c.machine_count - 1)
    IN  Append(config, [to |-> c.machine_count,
                        msg |-> Notify(Notifier, exepected_message_count)])

\* the fields of a DaisyChainDriver are set and its machines are connected,
\* with bounded mailboxes of default_channel_max or with unbounded ones
ChainInit ==
    /\ mbox = [m \in Machines |-> <<>>]
    /\ closed = [m \in Machines |-> FALSE]
    /\ capacity = [m \in Machines |-> Unbounded]
    /\ pc = [m \in Machines |-> "spawned"]
    /\ cmd = [m \in Machines |-> None]
    /\ queue = [m \in Machines |-> <<>>]
    /\ idx = [m \in Machines |-> 1]
    /\ nextId = 1
    /\ accepted = [m \in Machines |-> <<>>]
    /\ delivered = [m \in Machines |-> <<>>]
    /\ connectedCalls = [m \in Machines |-> 0]
    /\ disconnectedCalls = [m \in Machines |-> 0]
    /\ swallowed = {}
    /\ atClose = [m \in Machines |-> <<>>]
    /\ state = "Init"
    /\ svcOp = "none"
    /\ svcNotifier = FALSE
    /\ svcPre = "Init"
    /\ svcRes = [ok |-> TRUE, curr |-> "-", new |-> "-"]
    /\ observer = <<>>
    /\ calls = 0
    /\ echo = EchoService_default
    /\ bg = BackgroundTask_none
    /\ pool = EXECUTOR(1)
    /\ chain \in {DaisyChainDriver(machines, messages, multiplier, cap) :
                    machines \in 1 .. MaxChain,
                    messages \in 1 .. MaxMessages,
                    multiplier \in Multipliers,
                    cap \in (1 .. MaxCapacity) \cup {Unbounded}}
    /\ monkey = ChaosMonkeyDriver(1, 1, 1, Unbounded)
    /\ net = NetCore_new
    /\ foundation = MachineFoundation_new
    /\ forwarder = Forwarder_new
    /\ message = TestMessage_new(0)

\* setup makes its next send; send().await returns once the mailbox has room.
\* After the last one (Notify) setup returns and run is called
DaisyChain_setup ==
    /\ chain.driver.pc = "setup"
    /\ LET s == setup_sends(chain)[chain.driver.step]
       IN  /\ ~is_full(chain.mbox[s.to], chain.capacity)
           /\ chain' = [chain EXCEPT
                          !.mbox[s.to] = send(@, s.msg),
                          !.driver.step = @ + 1,
                          !.driver.pc = IF chain.driver.step = Len(setup_sends(chain))
                                        THEN "run" ELSE @]
    /\ UNCHANGED notChainVars

\* the task spawned by run sends TestData(msg_id) to the first forwarder
DaisyChain_run_send ==
    /\ chain.driver.pc = "run"
    /\ chain.driver.sent < chain.message_count
    /\ ~is_full(chain.mbox[1], chain.capacity)
    /\ chain' = [chain EXCEPT !.mbox[1] = send(@, TestData(chain.driver.sent)),
                              !.driver.sent = @ + 1]
    /\ UNCHANGED notChainVars

\* run: wait_for_notification receives from the notifier channel and returns
wait_for_notification ==
    /\ chain.driver.pc = "run"
    /\ chain.notifier # <<>>
    /\ chain' = [chain EXCEPT !.notifier = recv(@).rest, !.driver.pc = "done"]
    /\ UNCHANGED notChainVars

\* the test reads the forwarders in order after run has returned:
\* counts records what get_and_clear_received_count returned
get_and_clear_received_count ==
    /\ chain.driver.pc = "done"
    /\ Len(chain.counts) < chain.machine_count
    /\ LET k == Len(chain.counts) + 1
       IN  chain' = [chain EXCEPT
                       !.counts = Append(@, chain.fwd[k].received_count),
                       !.fwd[k].received_count = 0,
                       !.fwd[k].send_count = 0]
    /\ UNCHANGED notChainVars

\* the adapter task of forwarder k receives a message and calls
\* machine.receive; a sequence error panics, which ends the task
ChainReceive(k) ==
    /\ k \in DOMAIN chain.task
    /\ chain.task[k].pc = "recv"
    /\ chain.mbox[k] # <<>>
    /\ LET r == Forwarder_receive(chain.fwd[k], recv(chain.mbox[k]).cmd, 1)
       IN  chain' = [chain EXCEPT
                       !.mbox[k] = recv(@).rest,
                       !.fwd[k] = r.data,
                       !.task[k] = [pc |-> IF r.panic THEN "panicked"
                                           ELSE IF r.queue = <<>> THEN "recv"
                                           ELSE "flush",
                                    queue |-> r.queue]]
    /\ UNCHANGED notChainVars

\* the adapter task of forwarder k makes the next send of sender.queue; the
\* notifier channel is unbounded
ChainSend(k) ==
    /\ k \in DOMAIN chain.task
    /\ chain.task[k].pc = "flush"
    /\ LET s == Head(chain.task[k].queue)
           rest == Tail(chain.task[k].queue)
           after == [pc |-> IF rest = <<>> THEN "recv" ELSE "flush", queue |-> rest]
       IN  IF s.to = Notifier
           THEN chain' = [chain EXCEPT !.notifier = send(@, s.msg),
                                       !.emitted = @ + 1,
                                       !.task[k] = after]
           ELSE /\ ~is_full(chain.mbox[s.to], chain.capacity)
                /\ chain' = [chain EXCEPT !.mbox[s.to] = send(@, s.msg),
                                          !.task[k] = after]
    /\ UNCHANGED notChainVars

ChainNext ==
    \/ DaisyChain_setup
    \/ DaisyChain_run_send
    \/ wait_for_notification
    \/ get_and_clear_received_count
    \/ \E k \in 1 .. MaxChain : ChainReceive(k)
    \/ \E k \in 1 .. MaxChain : ChainSend(k)

SpecChain == ChainInit /\ [][ChainNext]_vars

\* the executors run every task that can go on, and the test's thread runs
SpecChainFair ==
    /\ SpecChain
    /\ WF_vars(DaisyChain_setup)
    /\ WF_vars(DaisyChain_run_send)
    /\ WF_vars(wait_for_notification)
    /\ \A k \in 1 .. MaxChain : WF_vars(ChainReceive(k)) /\ WF_vars(ChainSend(k))

(* ------------------------------ ChaosMonkey ---------------------------- *)

\* ChaosMonkeyDriver::async_setup: the sends it makes, in order: to each
\* monkey AddSenders(all the monkeys) and Notify(notifier, 0), then to the
\* notifier Notify(the driver's channel, message_count)
async_setup_sends(c) ==
    LET config == [i \in 1 .. 2 * c.machine_count |->
                      IF i % 2 = 1
                      THEN [to  |-> (i + 1) \div 2,
                            msg |-> AddSenders([k \in 1 .. c.machine_count |-> k])]
                      ELSE [to |-> i \div 2, msg |-> Notify(c.machine_count + 1, 0)]]
    IN  Append(config, [to  |-> c.machine_count + 1,
                        msg |-> Notify(Notifier, c.message_count)])

\* the fields of a ChaosMonkeyDriver are set, with bound_queue (mailboxes of
\* default_channel_max) or without
MonkeyInit ==
    /\ mbox = [m \in Machines |-> <<>>]
    /\ closed = [m \in Machines |-> FALSE]
    /\ capacity = [m \in Machines |-> Unbounded]
    /\ pc = [m \in Machines |-> "spawned"]
    /\ cmd = [m \in Machines |-> None]
    /\ queue = [m \in Machines |-> <<>>]
    /\ idx = [m \in Machines |-> 1]
    /\ nextId = 1
    /\ accepted = [m \in Machines |-> <<>>]
    /\ delivered = [m \in Machines |-> <<>>]
    /\ connectedCalls = [m \in Machines |-> 0]
    /\ disconnectedCalls = [m \in Machines |-> 0]
    /\ swallowed = {}
    /\ atClose = [m \in Machines |-> <<>>]
    /\ state = "Init"
    /\ svcOp = "none"
    /\ svcNotifier = FALSE
    /\ svcPre = "Init"
    /\ svcRes = [ok |-> TRUE, curr |-> "-", new |-> "-"]
    /\ observer = <<>>
    /\ calls = 0
    /\ echo = EchoService_default
    /\ bg = BackgroundTask_none
    /\ pool = EXECUTOR(1)
    /\ chain = DaisyChainDriver(1, 1, 1, Unbounded)
    /\ monkey \in {ChaosMonkeyDriver(machines, messages, inflection, cap) :
                     machines \in 1 .. MaxMonkeys,
                     messages \in 1 .. MaxMessages,
                     inflection \in 0 .. MaxInflection,
                     cap \in (1 .. MaxCapacity) \cup {Unbounded}}
    /\ net = NetCore_new
    /\ foundation = MachineFoundation_new
    /\ forwarder = Forwarder_new
    /\ message = TestMessage_new(0)

\* async_setup makes its next send; send().await returns once the mailbox
\* has room. After the last one (Notify to the notifier) setup returns and run
\* is called
ChaosMonkey_async_setup ==
    /\ monkey.driver.pc = "setup"
    /\ LET s == async_setup_sends(monkey)[monkey.driver.step]
       IN  /\ ~is_full(monkey.mbox[s.to], monkey.capacity)
           /\ monkey' = [monkey EXCEPT
                           !.mbox[s.to] = send(@, s.msg),
                           !.driver.step = @ + 1,
                           !.driver.pc = IF monkey.driver.step = Len(async_setup_sends(monkey))
                                         THEN "run" ELSE @]
    /\ UNCHANGED notMonkeyVars

\* the task spawned by run sends the next ChaosMonkey{0, inflection_value,
\* Increment} to senders[sample], sample drawn from 0 .. senders.len()
ChaosMonkey_run_send(sample) ==
    /\ monkey.driver.pc = "run"
    /\ sample \in 1 .. monkey.machine_count
    /\ monkey.driver.sent < monkey.message_count
    /\ ~is_full(monkey.mbox[sample], monkey.capacity)
    /\ monkey' = [monkey EXCEPT
                    !.mbox[sample] =
                        send(@, ChaosMonkey(0, monkey.inflection_value, "Increment")),
                    !.driver.sent = @ + 1]
    /\ UNCHANGED notMonkeyVars

\* run: wait_for_notification receives from the driver's channel and returns
ChaosMonkey_wait_for_notification ==
    /\ monkey.driver.pc = "run"
    /\ monkey.receiver # <<>>
    /\ monkey' = [monkey EXCEPT !.receiver = recv(@).rest, !.driver.pc = "done"]
    /\ UNCHANGED notMonkeyVars

\* small_chaos_monkey, after run has returned: the forwarders are read in
\* order (the notifier last) and their counts are added up in total;
\* Forwarder::get_and_clear_received_count takes the data mutex with lock()
ChaosMonkey_total ==
    /\ monkey.driver.pc = "done"
    /\ monkey.locked = 0
    /\ monkey.read < monkey.machine_count + 1
    /\ LET k == monkey.read + 1
       IN  monkey' = [monkey EXCEPT
                        !.total = @ + monkey.fwd[k].received_count,
                        !.read = k,
                        !.locked = k,
                        !.fwd[k].received_count = 0,
                        !.fwd[k].send_count = 0]
    /\ UNCHANGED notMonkeyVars

\* Forwarder::get_and_clear_received_count returns: its MutexGuard is dropped
MutexGuard_drop ==
    /\ monkey.locked # 0
    /\ monkey' = [monkey EXCEPT !.locked = 0]
    /\ UNCHANGED notMonkeyVars

\* the adapter task of forwarder k receives a message and calls
\* machine.receive, in which get_monkey_fwd, if called, returns sample; if
\* the data mutex is held, try_lock returns None and receive panics
MonkeyReceive(k, sample) ==
    /\ k \in DOMAIN monkey.task
    /\ sample \in 1 .. monkey.machine_count
    /\ monkey.task[k].pc = "recv"
    /\ monkey.mbox[k] # <<>>
    /\ LET r == Forwarder_receive(monkey.fwd[k], recv(monkey.mbox[k]).cmd, sample)
       IN  IF try_lock(monkey.locked, k)
           THEN monkey' = [monkey EXCEPT
                        !.mbox[k] = recv(@).rest,
                        !.fwd[k] = r.data,
                        !.task[k] = [pc |-> IF r.panic THEN "panicked"
                                            ELSE IF r.queue = <<>> THEN "recv"
                                            ELSE "flush",
                                     queue |-> r.queue]]
           ELSE monkey' = [monkey EXCEPT
                        !.mbox[k] = recv(@).rest,
                        !.task[k] = [pc |-> "failed to acquire", queue |-> <<>>]]
    /\ UNCHANGED notMonkeyVars

\* the adapter task of forwarder k makes the next send of sender.queue:
\* do_send awaits room in the target's mailbox; the driver's channel is
\* unbounded
MonkeySend(k) ==
    /\ k \in DOMAIN monkey.task
    /\ monkey.task[k].pc = "flush"
    /\ LET s == Head(monkey.task[k].queue)
           rest == Tail(monkey.task[k].queue)
           next == [pc |-> IF rest = <<>> THEN "recv" ELSE "flush", queue |-> rest]
       IN  IF s.to = Notifier
           THEN monkey' = [monkey EXCEPT !.receiver = send(@, s.msg),
                                         !.task[k] = next]
           ELSE /\ ~is_full(monkey.mbox[s.to], monkey.capacity)
                /\ monkey' = [monkey EXCEPT !.mbox[s.to] = send(@, s.msg),
                                             !.task[k] = next]
    /\ UNCHANGED notMonkeyVars

MonkeyNext ==
    \/ ChaosMonkey_async_setup
    \/ \E sample \in 1 .. MaxMonkeys : ChaosMonkey_run_send(sample)
    \/ ChaosMonkey_wait_for_notification
    \/ ChaosMonkey_total
    \/ MutexGuard_drop
    \/ \E k \in 1 .. MaxMonkeys + 1, sample \in 1 .. MaxMonkeys : MonkeyReceive(k, sample)
    \/ \E k \in 1 .. MaxMonkeys + 1 : MonkeySend(k)

SpecMonkey == MonkeyInit /\ [][MonkeyNext]_vars

(* ------------------------ NetCore and NetController -------------------- *)

\* faulty variant of Mutex_lock: does not wait for the holder
Mutex_lock_shared(holders) == TRUE

\* Mutex::lock().await returns once no task holds the mutex
Mutex_lock(holders) == holders = {}

\* SuperSlab::vacant_entry().key(): a key no entry has (the lowest; no entry
\* is ever removed from the slabs of the NetController)
vacant_entry(slab) ==
    CHOOSE key \in 0 .. Cardinality(DOMAIN slab) :
        key \notin DOMAIN slab /\ \A j \in 0 .. key - 1 : j \in DOMAIN slab

\* VacantEntry::insert
insert(slab, key, value) ==
    [k \in DOMAIN slab \cup {key} |-> IF k = key THEN value ELSE slab[k]]

\* a BackgroundTask and the task it wraps: closed is the state of its
\* channel, task the state of the wrapped task
BackgroundTask_detach == [closed |-> FALSE, task |-> "running"]

\* BackgroundTask::default(): the Sender of a channel whose Receiver is
\* dropped, and no task
BackgroundTask_default == [closed |-> TRUE, task |-> "none"]

\* the Server of bind_tcp_listener with its listener task, which is about to
\* bind; key is the connection key the task holds between vacant_entry and
\* insert
Server ==
    [listener_task |-> BackgroundTask_detach, pc |-> "bind", key |-> 0]

\* the Connection a listener task makes of an accepted stream; unread is what
\* the peer has sent and the reader has not read, wire what was written to
\* the stream, written the number of SendBytes done
Connection ==
    [stream    |-> "open",
     sender    |-> FALSE,
     recv_task |-> BackgroundTask_default,
     unread    |-> Payload,
     wire      |-> <<>>,
     written   |-> 0]

\* faulty variant of Arc_drop: the connections slab is never dropped
Arc_drop_never(n) == n

\* the connections slab is dropped with the last Arc of it: the controller
\* has gone and no listener task is left. Its Connections are dropped, and
\* with each its recv_task, the only Sender of that BackgroundTask's channel
Arc_drop(n) ==
    IF /\ n.controller.pc = "exited"
       /\ \A k \in DOMAIN n.servers : n.servers[k].listener_task.task # "running"
    THEN [n EXCEPT
            !.dropped = TRUE,
            !.connections = [c \in DOMAIN @ |->
                                [@[c] EXCEPT !.recv_task.closed = TRUE]]]
    ELSE n

\* the controller task ends (break, or recv returned Err): the Receiver and
\* the NetController are dropped, and with the servers slab every
\* listener_task
NetController_drop(n) ==
    Arc_drop([n EXCEPT
                !.controller.pc = "exited",
                !.closed = TRUE,
                !.cmds = <<>>,
                !.servers = [k \in DOMAIN @ |->
                                [@[k] EXCEPT !.listener_task.closed = TRUE]]])

\* NetController::bind_tcp_listener: the listener task is spawned and
\* detached, and its Server is put in the servers slab
bind_tcp_listener(n) ==
    [n EXCEPT !.servers = insert(@, vacant_entry(@), Server)]

\* NetController::bind_conn: the reader task is spawned and detached and
\* becomes the recv_task of the connection, if there is one
bind_conn(n, conn_id) ==
    IF conn_id \in DOMAIN n.connections
    THEN [n EXCEPT !.connections[conn_id].recv_task = BackgroundTask_detach,
                   !.connections[conn_id].sender = TRUE]
    ELSE n

\* NetController::close_conn: recv_task.cancel() and stream.shutdown(Both),
\* if there is a connection
close_conn(n, conn_id) ==
    IF conn_id \in DOMAIN n.connections
    THEN [n EXCEPT !.connections[conn_id].recv_task.closed = TRUE,
                   !.connections[conn_id].stream =
                       IF @ = "open" THEN "shutdown" ELSE @,
                   !.closing = @ \cup {conn_id}]
    ELSE n

\* NetController::send_bytes up to its loop: with a connection and bytes to
\* write the controller enters the loop, holding the connections mutex
send_bytes(n, conn_id, bytes) ==
    IF conn_id \in DOMAIN n.connections /\ Len(bytes) > 0
    THEN [n EXCEPT !.controller = [pc |-> "write", conn_id |-> conn_id,
                                   bytes |-> bytes, remaining |-> Len(bytes)],
                   !.lock = @ \cup {Holder("controller", 0)}]
    ELSE n

\* NetController::handle
handle(n, c) ==
    CASE c.cmd = "BindTcpListener" -> bind_tcp_listener(n)
      [] c.cmd = "BindConn"        -> bind_conn(n, c.conn_id)
      [] c.cmd = "CloseConn"       -> close_conn(n, c.conn_id)
      [] c.cmd = "SendBytes"       -> send_bytes(n, c.conn_id, c.bytes)
      [] OTHER                     -> n

\* faulty variant of drain: the written bytes stay in the vector
drain_nothing(bytes, written) == bytes

\* bytes.drain(0 .. written)
drain(bytes, written) == SubSeq(bytes, written + 1, Len(bytes))

\* faulty variant of set_len: the buffer keeps its length
set_len_kept(buf, bytes_read) == buf

\* buf.set_len(bytes_read)
set_len(buf, bytes_read) == SubSeq(buf, 1, bytes_read)

\* stream.read(&mut buf) returning Ok(bytes_read): the buffer afterwards
read(buf, unread, bytes_read) ==
    [i \in 1 .. Len(buf) |-> IF i <= bytes_read THEN unread[i] ELSE buf[i]]

\* what the application may send next: BindTcpListener, and for a connection
\* it has been told of in NewConn, one BindConn, one CloseConn, and
\* SendBytes; or Stop
AppCmds ==
    {NetCmd("BindTcpListener", 0, <<>>), NetCmd("Stop", 0, <<>>)}
    \cup {NetCmd(c, id, <<>>) : c \in {"BindConn", "CloseConn"}, id \in 0 .. MaxConns - 1}
    \cup {NetCmd("SendBytes", id, Payload) : id \in 0 .. MaxConns - 1}

\* no call of the NetCore has been made
NetInit ==
    /\ mbox = [m \in Machines |-> <<>>]
    /\ closed = [m \in Machines |-> FALSE]
    /\ capacity = [m \in Machines |-> Unbounded]
    /\ pc = [m \in Machines |-> "spawned"]
    /\ cmd = [m \in Machines |-> None]
    /\ queue = [m \in Machines |-> <<>>]
    /\ idx = [m \in Machines |-> 1]
    /\ nextId = 1
    /\ accepted = [m \in Machines |-> <<>>]
    /\ delivered = [m \in Machines |-> <<>>]
    /\ connectedCalls = [m \in Machines |-> 0]
    /\ disconnectedCalls = [m \in Machines |-> 0]
    /\ swallowed = {}
    /\ atClose = [m \in Machines |-> <<>>]
    /\ state = "Init"
    /\ svcOp = "none"
    /\ svcNotifier = FALSE
    /\ svcPre = "Init"
    /\ svcRes = [ok |-> TRUE, curr |-> "-", new |-> "-"]
    /\ observer = <<>>
    /\ calls = 0
    /\ echo = EchoService_default
    /\ bg = BackgroundTask_none
    /\ pool = EXECUTOR(1)
    /\ chain = DaisyChainDriver(1, 1, 1, Unbounded)
    /\ monkey = ChaosMonkeyDriver(1, 1, 1, Unbounded)
    /\ net = NetCore_new
    /\ foundation = MachineFoundation_new
    /\ forwarder = Forwarder_new
    /\ message = TestMessage_new(0)

\* NetCore::start(): in Init the state goes to Started, the command channel
\* is made, the controller task is spawned, the Sender is stored and the
\* state goes to Running; in any other state the call returns at once
NetCore_start_call ==
    /\ net.calls < MaxNetCalls
    /\ net' = IF can_start(net.state)
              THEN [net EXCEPT !.calls = @ + 1,
                               !.state = NetCore_start(@),
                               !.cmds = <<>>,
                               !.closed = FALSE,
                               !.controller.pc = "recv",
                               !.spawned = @ + 1,
                               !.sender = TRUE]
              ELSE [net EXCEPT !.calls = @ + 1]
    /\ UNCHANGED notNetVars

\* NetCore::stop(): the state goes to Stopped if it can, and the stored
\* Sender, if there is one, closes the command channel
NetCore_stop_call ==
    /\ net.calls < MaxNetCalls
    /\ net' = [net EXCEPT !.calls = @ + 1,
                          !.state = ServiceState_after("stop", @),
                          !.closed = @ \/ net.sender]
    /\ UNCHANGED notNetVars

\* the application sends a NetCmd with the Sender get_sender gave it while the
\* NetCore was running
App_send(c) ==
    /\ is_running(net.state)
    /\ ~net.closed
    /\ net.sends < MaxNetSends
    /\ c.cmd = "BindTcpListener" =>
          Cardinality({r \in net.requested : r.cmd = c.cmd}) < MaxListeners
    /\ c.cmd \in {"BindConn", "CloseConn", "SendBytes"} =>
          NetCmd("NewConn", c.conn_id, <<>>) \in {net.owner[i] : i \in DOMAIN net.owner}
    /\ c.cmd \in {"BindConn", "CloseConn", "Stop"} => c \notin net.requested
    /\ net' = [net EXCEPT
                  !.cmds = Append(@, c),
                  !.sends = @ + 1,
                  !.requested =
                      IF c.cmd = "BindTcpListener"
                      THEN @ \cup {NetCmd(c.cmd, Cardinality(@), <<>>)}
                      ELSE @ \cup {c}]
    /\ UNCHANGED notNetVars

\* the controller task receives a NetCmd: Stop ends the task, any other is
\* handled; bind_conn, close_conn and send_bytes first wait for the
\* connections mutex
Controller_recv ==
    /\ net.controller.pc = "recv"
    /\ net.cmds # <<>>
    /\ LET c == recv(net.cmds).cmd
           n == [net EXCEPT !.cmds = recv(@).rest]
       IN  /\ c.cmd \in {"BindConn", "CloseConn", "SendBytes"} => Mutex_lock(net.lock)
           /\ net' = IF c.cmd = "Stop" THEN NetController_drop(n) ELSE handle(n, c)
    /\ UNCHANGED notNetVars

\* the command channel is closed and empty: recv returns Err and the
\* controller task ends
Controller_recv_err ==
    /\ net.controller.pc = "recv"
    /\ recv_fails(net.cmds, net.closed)
    /\ net' = NetController_drop(net)
    /\ UNCHANGED notNetVars

\* send_bytes: stream.write(&bytes) returns Ok(written); the loop ends when
\* nothing remains, and the mutex is released
Controller_write(written) ==
    /\ net.controller.pc = "write"
    /\ written \in 1 .. Len(net.controller.bytes)
    /\ LET conn_id == net.controller.conn_id
           bytes == net.controller.bytes
           remaining == net.controller.remaining - written
       IN  /\ net.connections[conn_id].stream = "open"
           /\ net' = [net EXCEPT
                         !.connections[conn_id].wire = @ \o SubSeq(bytes, 1, written),
                         !.connections[conn_id].written =
                             IF remaining > 0 THEN @ ELSE @ + 1,
                         !.controller =
                             IF remaining > 0
                             THEN [@ EXCEPT !.bytes = drain(bytes, written),
                                            !.remaining = remaining]
                             ELSE [pc |-> "recv", conn_id |-> 0, bytes |-> <<>>,
                                   remaining |-> 0],
                         !.lock = IF remaining > 0 THEN @
                                  ELSE @ \ {Holder("controller", 0)}]
    /\ UNCHANGED notNetVars

\* send_bytes: stream.write(&bytes) returns Err (the stream was shut down, or
\* reset by the peer): nothing is changed and the loop goes round again
Controller_write_err ==
    /\ net.controller.pc = "write"
    /\ net.connections[net.controller.conn_id].stream # "open"
    /\ net' = [net EXCEPT !.failed = @ \cup {net.controller.conn_id}]
    /\ UNCHANGED notNetVars

\* the listener task k binds its address, or fails to and ends
Listener_bind(k, ok) ==
    /\ k \in DOMAIN net.servers
    /\ net.servers[k].listener_task.task = "running"
    /\ net.servers[k].pc = "bind"
    /\ net' = IF ok
              THEN [net EXCEPT !.servers[k].pc = "accept"]
              ELSE Arc_drop([net EXCEPT !.servers[k].listener_task.task = "done"])
    /\ UNCHANGED notNetVars

\* the listener task k accepts a stream, locks the connections and takes the
\* key of a vacant entry
Listener_accept(k) ==
    /\ k \in DOMAIN net.servers
    /\ net.servers[k].listener_task.task = "running"
    /\ net.servers[k].pc = "accept"
    /\ net.accepted < MaxConns
    /\ Mutex_lock(net.lock)
    /\ net' = [net EXCEPT !.servers[k].pc = "insert",
                          !.servers[k].key = vacant_entry(net.connections),
                          !.accepted = @ + 1,
                          !.lock = @ \cup {Holder("listener", k)}]
    /\ UNCHANGED notNetVars

\* the listener task k inserts the Connection at its key, sends NewConn to
\* its owner and unlocks the connections
Listener_insert(k) ==
    /\ k \in DOMAIN net.servers
    /\ net.servers[k].listener_task.task = "running"
    /\ net.servers[k].pc = "insert"
    /\ net' = [net EXCEPT
                  !.connections = insert(@, net.servers[k].key, Connection),
                  !.owner = Append(@, NetCmd("NewConn", net.servers[k].key, <<>>)),
                  !.servers[k].pc = "accept",
                  !.lock = @ \ {Holder("listener", k)}]
    /\ UNCHANGED notNetVars

\* the supervisor of listener task k finds the BackgroundTask's channel
\* closed and drops the task, with what it holds
Listener_cancelled(k) ==
    /\ k \in DOMAIN net.servers
    /\ net.servers[k].listener_task.closed
    /\ net.servers[k].listener_task.task = "running"
    /\ net' = Arc_drop([net EXCEPT
                           !.servers[k].listener_task.task = Task_drop(@),
                           !.lock = @ \ {Holder("listener", k)}])
    /\ UNCHANGED notNetVars

\* the reader task of conn_id reads bytes_read > 0 bytes and sends them to
\* the application in RecvBytes
Reader_read(conn_id, bytes_read) ==
    /\ conn_id \in DOMAIN net.connections
    /\ net.connections[conn_id].recv_task.task = "running"
    /\ net.connections[conn_id].stream = "open"
    /\ bytes_read \in 1 .. Len(net.connections[conn_id].unread)
    /\ bytes_read <= ReadBufLen
    /\ LET buf == read([i \in 1 .. ReadBufLen |-> 0],
                       net.connections[conn_id].unread, bytes_read)
       IN  net' = [net EXCEPT
                     !.connections[conn_id].unread = SubSeq(@, bytes_read + 1, Len(@)),
                     !.app = Append(@, NetCmd("RecvBytes", conn_id, set_len(buf, bytes_read)))]
    /\ UNCHANGED notNetVars

\* the reader task of conn_id reads Ok(0) (the peer has sent everything and
\* closed, or the stream was shut down): CloseConn goes to the application
\* and to the listener's owner, and the task ends
Reader_eof(conn_id) ==
    /\ conn_id \in DOMAIN net.connections
    /\ net.connections[conn_id].recv_task.task = "running"
    /\ \/ net.connections[conn_id].stream = "shutdown"
       \/ net.connections[conn_id].stream = "open" /\ net.connections[conn_id].unread = <<>>
    /\ net' = [net EXCEPT
                  !.app = Append(@, NetCmd("CloseConn", conn_id, <<>>)),
                  !.owner = Append(@, NetCmd("CloseConn", conn_id, <<>>)),
                  !.connections[conn_id].recv_task.task = "done"]
    /\ UNCHANGED notNetVars

\* the reader task of conn_id reads Err (the peer has reset the stream): the
\* same two CloseConn, and the task ends
Reader_err(conn_id) ==
    /\ conn_id \in DOMAIN net.connections
    /\ net.connections[conn_id].recv_task.task = "running"
    /\ net.connections[conn_id].stream = "reset"
    /\ net' = [net EXCEPT
                  !.app = Append(@, NetCmd("CloseConn", conn_id, <<>>)),
                  !.owner = Append(@, NetCmd("CloseConn", conn_id, <<>>)),
                  !.connections[conn_id].recv_task.task = "done",
                  !.failed = @ \cup {conn_id}]
    /\ UNCHANGED notNetVars

\* the supervisor of the reader task of conn_id finds the BackgroundTask's
\* channel closed and drops the task
Reader_cancelled(conn_id) ==
    /\ conn_id \in DOMAIN net.connections
    /\ net.connections[conn_id].recv_task.closed
    /\ net.connections[conn_id].recv_task.task = "running"
    /\ net' = [net EXCEPT !.connections[conn_id].recv_task.task = Task_drop(@)]
    /\ UNCHANGED notNetVars

\* the peer of conn_id resets the connection
Peer_reset(conn_id) ==
    /\ conn_id \in DOMAIN net.connections
    /\ net.connections[conn_id].stream = "open"
    /\ net' = [net EXCEPT !.connections[conn_id].stream = "reset"]
    /\ UNCHANGED notNetVars

NetNext ==
    \/ NetCore_start_call
    \/ NetCore_stop_call
    \/ \E c \in AppCmds : App_send(c)
    \/ Controller_recv
    \/ Controller_recv_err
    \/ \E written \in 1 .. MaxBytes : Controller_write(written)
    \/ Controller_write_err
    \/ \E k \in 0 .. MaxListeners - 1, ok \in BOOLEAN : Listener_bind(k, ok)
    \/ \E k \in 0 .. MaxListeners - 1 : Listener_accept(k)
    \/ \E k \in 0 .. MaxListeners - 1 : Listener_insert(k)
    \/ \E k \in 0 .. MaxListeners - 1 : Listener_cancelled(k)
    \/ \E conn_id \in 0 .. MaxConns - 1, bytes_read \in 1 .. MaxBytes :
          Reader_read(conn_id, bytes_read)
    \/ \E conn_id \in 0 .. MaxConns - 1 : Reader_eof(conn_id)
    \/ \E conn_id \in 0 .. MaxConns - 1 : Reader_err(conn_id)
    \/ \E conn_id \in 0 .. MaxConns - 1 : Reader_cancelled(conn_id)
    \/ \E conn_id \in 0 .. MaxConns - 1 : Peer_reset(conn_id)

SpecNet == NetInit /\ [][NetNext]_vars

\* the executors run every task that can go on: the controller, the
\* listeners, the readers and the supervisors of the BackgroundTasks
SpecNetFair ==
    /\ SpecNet
    /\ WF_vars(Controller_recv)
    /\ WF_vars(Controller_recv_err)
    /\ WF_vars(\E written \in 1 .. MaxBytes : Controller_write(written))
    /\ \A k \in 0 .. MaxListeners - 1 :
          WF_vars(Listener_insert(k)) /\ WF_vars(Listener_cancelled(k))
    /\ \A conn_id \in 0 .. MaxConns - 1 : WF_vars(Reader_cancelled(conn_id))

(* -------------- machine::create / extend, default_channel_max ---------- *)

\* MachineBuilder::prepare_adapter and create_adapter: an adapter is made for
\* the channel and started on the machine; the Sender is returned
prepare_adapter(f, machine, channel) ==
    [f EXCEPT !.channels = Append(@, [capacity |-> channel, machine |-> machine])]

\* MachineBuilder::bounded: smol::channel::bounded(cap), then
\* prepare_create puts the machine in a new Arc
MachineBuilder_bounded(f, cap) ==
    prepare_adapter([f EXCEPT !.machines = @ + 1], f.machines + 1, cap)

\* MachineBuilder::unbounded
MachineBuilder_unbounded(f) ==
    prepare_adapter([f EXCEPT !.machines = @ + 1], f.machines + 1, Unbounded)

\* MachineBuilder::extend_bounded: a second channel and adapter for the Arc
MachineBuilder_extend_bounded(f, machine, cap) ==
    prepare_adapter(f, machine, cap)

\* MachineBuilder::extend_unbounded
MachineBuilder_extend_unbounded(f, machine) ==
    prepare_adapter(f, machine, Unbounded)

\* faulty variant of create: the cap is the initial default
create_with_initial_default(f) == MachineBuilder_bounded(f, DefaultChannelMax)

\* machine::create: default_channel_max.load() is the cap
create(f) == MachineBuilder_bounded(f, f.default_channel_max)

\* machine::create_with_capacity
create_with_capacity(f, cap) == MachineBuilder_bounded(f, cap)

\* machine::create_unbounded
create_unbounded(f) == MachineBuilder_unbounded(f)

\* machine::extend
extend(f, machine) == MachineBuilder_extend_bounded(f, machine, f.default_channel_max)

\* machine::extend_with_capacity
extend_with_capacity(f, machine, cap) ==
    MachineBuilder_extend_bounded(f, machine, cap)

\* machine::extend_unbounded
extend_unbounded(f, machine) == MachineBuilder_extend_unbounded(f, machine)

\* set_default_channel_max: res is get_default_num_threads(), then the store
set_default_channel_max(f, cap) ==
    [f EXCEPT !.res = f.default_num_threads, !.default_channel_max = cap]

\* the constructors of machine.rs
Constructors == {"create", "create_with_capacity", "create_unbounded"}
Extenders == {"extend", "extend_with_capacity", "extend_unbounded"}

\* nothing was built yet, default_channel_max is at its initial value
FoundationInit ==
    /\ mbox = [m \in Machines |-> <<>>]
    /\ closed = [m \in Machines |-> FALSE]
    /\ capacity = [m \in Machines |-> Unbounded]
    /\ pc = [m \in Machines |-> "spawned"]
    /\ cmd = [m \in Machines |-> None]
    /\ queue = [m \in Machines |-> <<>>]
    /\ idx = [m \in Machines |-> 1]
    /\ nextId = 1
    /\ accepted = [m \in Machines |-> <<>>]
    /\ delivered = [m \in Machines |-> <<>>]
    /\ connectedCalls = [m \in Machines |-> 0]
    /\ disconnectedCalls = [m \in Machines |-> 0]
    /\ swallowed = {}
    /\ atClose = [m \in Machines |-> <<>>]
    /\ state = "Init"
    /\ svcOp = "none"
    /\ svcNotifier = FALSE
    /\ svcPre = "Init"
    /\ svcRes = [ok |-> TRUE, curr |-> "-", new |-> "-"]
    /\ observer = <<>>
    /\ calls = 0
    /\ echo = EchoService_default
    /\ bg = BackgroundTask_none
    /\ pool = EXECUTOR(1)
    /\ chain = DaisyChainDriver(1, 1, 1, Unbounded)
    /\ monkey = ChaosMonkeyDriver(1, 1, 1, Unbounded)
    /\ net = NetCore_new
    /\ foundation = MachineFoundation_new
    /\ forwarder = Forwarder_new
    /\ message = TestMessage_new(0)

\* a call of set_default_channel_max(cap)
Foundation_set(cap) ==
    /\ foundation.sets < MaxSets
    /\ foundation' = [set_default_channel_max(foundation, cap) EXCEPT !.sets = @ + 1]
    /\ UNCHANGED notFoundationVars

\* a call of create, create_with_capacity(cap) or create_unbounded on a
\* new machine
Foundation_create(by, cap) ==
    /\ Len(foundation.channels) < MaxChannels
    /\ by \in Constructors
    /\ LET built == CASE by = "create" -> create(foundation)
                      [] by = "create_with_capacity" -> create_with_capacity(foundation, cap)
                      [] by = "create_unbounded" -> create_unbounded(foundation)
       IN  foundation' = [built EXCEPT !.made = Append(@,
                              [by |-> by,
                               given |-> IF by \in {"create_with_capacity", "extend_with_capacity"}
                                         THEN cap ELSE None,
                               loaded |-> foundation.default_channel_max])]
    /\ UNCHANGED notFoundationVars

\* a call of extend, extend_with_capacity(cap) or extend_unbounded on
\* the Arc of a machine made before
Foundation_extend(by, machine, cap) ==
    /\ Len(foundation.channels) < MaxChannels
    /\ by \in Extenders
    /\ machine \in 1 .. foundation.machines
    /\ LET built == CASE by = "extend" -> extend(foundation, machine)
                      [] by = "extend_with_capacity" ->
                            extend_with_capacity(foundation, machine, cap)
                      [] by = "extend_unbounded" -> extend_unbounded(foundation, machine)
       IN  foundation' = [built EXCEPT !.made = Append(@,
                              [by |-> by,
                               given |-> IF by \in {"create_with_capacity", "extend_with_capacity"}
                                         THEN cap ELSE None,
                               loaded |-> foundation.default_channel_max])]
    /\ UNCHANGED notFoundationVars

FoundationNext ==
    \/ \E cap \in 1 .. MaxChannelMax : Foundation_set(cap)
    \/ \E by \in Constructors, cap \in 1 .. MaxChannelMax :
          Foundation_create(by, cap)
    \/ \E by \in Extenders, machine \in 1 .. MaxChannels, cap \in 1 .. MaxChannelMax :
          Foundation_extend(by, machine, cap)

SpecFoundation == FoundationInit /\ [][FoundationNext]_vars

(* ----------------------- one Forwarder, any messages ------------------- *)

\* the messages sent to the Forwarder: the actions TestData, Test and
\* ChaosMonkey, and the configuration messages
ForwarderMessages ==
    {TestData(seq) : seq \in 0 .. MaxSeq}
    \cup {Test, RemoveAllSenders, AddSender(1)}
    \cup {Notify(Notifier, n) : n \in 0 .. MaxSeq}
    \cup {ForwardingMultiplier(count) : count \in Multipliers}
    \cup {ChaosMonkey(c, 1, mut) : c \in 0 .. 1, mut \in {"Increment", "Decrement"}}

\* ForwarderMutable::get_and_clear_received_count: the data after it
clear_received_count(data) == [data EXCEPT !.received_count = 0, !.send_count = 0]

\* a Forwarder was made and connected; it has received nothing
ForwarderInit ==
    /\ mbox = [m \in Machines |-> <<>>]
    /\ closed = [m \in Machines |-> FALSE]
    /\ capacity = [m \in Machines |-> Unbounded]
    /\ pc = [m \in Machines |-> "spawned"]
    /\ cmd = [m \in Machines |-> None]
    /\ queue = [m \in Machines |-> <<>>]
    /\ idx = [m \in Machines |-> 1]
    /\ nextId = 1
    /\ accepted = [m \in Machines |-> <<>>]
    /\ delivered = [m \in Machines |-> <<>>]
    /\ connectedCalls = [m \in Machines |-> 0]
    /\ disconnectedCalls = [m \in Machines |-> 0]
    /\ swallowed = {}
    /\ atClose = [m \in Machines |-> <<>>]
    /\ state = "Init"
    /\ svcOp = "none"
    /\ svcNotifier = FALSE
    /\ svcPre = "Init"
    /\ svcRes = [ok |-> TRUE, curr |-> "-", new |-> "-"]
    /\ observer = <<>>
    /\ calls = 0
    /\ echo = EchoService_default
    /\ bg = BackgroundTask_none
    /\ pool = EXECUTOR(1)
    /\ chain = DaisyChainDriver(1, 1, 1, Unbounded)
    /\ monkey = ChaosMonkeyDriver(1, 1, 1, Unbounded)
    /\ net = NetCore_new
    /\ foundation = MachineFoundation_new
    /\ forwarder = Forwarder_new
    /\ message = TestMessage_new(0)

\* the adapter calls receive(msg, sender) on an empty MachineSender; sample is
\* what get_monkey_fwd returns. A ChaosMonkey is sent only to a forwarder
\* that has senders; after a panic the task is gone
Forwarder_recv(msg, sample) ==
    /\ ~forwarder.panic
    /\ forwarder.receives < MaxReceives
    /\ msg.type = "AddSender" => Len(forwarder.data.senders) < 2
    /\ IF msg.type = "ChaosMonkey"
       THEN sample \in get_monkey_fwd(forwarder.data)
       ELSE sample = 1
    /\ LET r == Forwarder_receive(forwarder.data, msg, sample)
       IN  forwarder' = [forwarder EXCEPT
                           !.data = r.data,
                           !.last = <<msg>>,
                           !.queue = r.queue,
                           !.panic = r.panic,
                           !.receives = @ + 1]
    /\ UNCHANGED notForwarderVars

\* the harness calls get_and_clear_received_count between two receives
Forwarder_get_and_clear ==
    /\ ~forwarder.panic
    /\ forwarder.cleared = 0
    /\ forwarder.data.received_count > 0
    /\ forwarder' = [forwarder EXCEPT
                        !.data = clear_received_count(@),
                        !.cleared = @ + 1]
    /\ UNCHANGED notForwarderVars

ForwarderNext ==
    \/ \E msg \in ForwarderMessages, sample \in 1 .. 2 : Forwarder_recv(msg, sample)
    \/ Forwarder_get_and_clear

SpecForwarder == ForwarderInit /\ [][ForwarderNext]_vars

(* ------------------- TestMessage::advance, repeated -------------------- *)

\* advances after which the run on one message is no longer followed
AdvanceLimit == 2 * MaxMax + 4

\* a ChaosMonkey message with counter 0 and Increment, for some max
MessageInit ==
    /\ mbox = [m \in Machines |-> <<>>]
    /\ closed = [m \in Machines |-> FALSE]
    /\ capacity = [m \in Machines |-> Unbounded]
    /\ pc = [m \in Machines |-> "spawned"]
    /\ cmd = [m \in Machines |-> None]
    /\ queue = [m \in Machines |-> <<>>]
    /\ idx = [m \in Machines |-> 1]
    /\ nextId = 1
    /\ accepted = [m \in Machines |-> <<>>]
    /\ delivered = [m \in Machines |-> <<>>]
    /\ connectedCalls = [m \in Machines |-> 0]
    /\ disconnectedCalls = [m \in Machines |-> 0]
    /\ swallowed = {}
    /\ atClose = [m \in Machines |-> <<>>]
    /\ state = "Init"
    /\ svcOp = "none"
    /\ svcNotifier = FALSE
    /\ svcPre = "Init"
    /\ svcRes = [ok |-> TRUE, curr |-> "-", new |-> "-"]
    /\ observer = <<>>
    /\ calls = 0
    /\ echo = EchoService_default
    /\ bg = BackgroundTask_none
    /\ pool = EXECUTOR(1)
    /\ chain = DaisyChainDriver(1, 1, 1, Unbounded)
    /\ monkey = ChaosMonkeyDriver(1, 1, 1, Unbounded)
    /\ net = NetCore_new
    /\ foundation = MachineFoundation_new
    /\ forwarder = Forwarder_new
    /\ message \in {TestMessage_new(max) : max \in 0 .. MaxMax}

\* message = message.advance(); the counter at which the mutation changes is
\* noted
TestMessage_advance ==
    /\ message.advances < AdvanceLimit
    /\ LET next == advance(message.msg)
       IN  message' = [message EXCEPT
                         !.msg = next,
                         !.advances = @ + 1,
                         !.flips = IF next.mutation # message.msg.mutation
                                   THEN Append(@, message.msg.counter) ELSE @]
    /\ UNCHANGED notMessageVars

MessageNext ==
    \/ TestMessage_advance

SpecMessage == MessageInit /\ [][MessageNext]_vars

(* ------------------------- properties: helpers ------------------------- *)

Range(q) == {q[i] : i \in DOMAIN q}

IsPrefix(p, q) == Len(p) <= Len(q) /\ SubSeq(q, 1, Len(p)) = p

\* how often x occurs in q
Occurrences(q, x) == Cardinality({i \in DOMAIN q : q[i] = x})

\* the cmd recv() returned to the task of m and receive has not got yet
AtHand(m) == IF cmd[m] = None THEN <<>> ELSE <<cmd[m]>>

\* the SendContexts of a whose send has not completed
Unsent(a) == {i \in DOMAIN queue[a] : queue[a][i].cmd # None}

\* the task of a is about to poll its mailbox, holds a cmd for receive, or is over
BetweenFlushes(a) == pc[a] \in {"recv", "receive", "closing", "done"}

(* ------------------------- adapter properties -------------------------- *)

\* C1: when the task of a mailbox polls for (or holds) the next instruction,
\* every send enqueued by the previous receive has completed: its instruction
\* was accepted by the target mailbox, or the target was closed. A receive
\* (pc = "receive") is the only one of its mailbox: the cmd at hand is the
\* one instruction taken from the mailbox and not yet delivered.
C1_SerialReceive ==
    \A a \in Machines :
        /\ BetweenFlushes(a) =>
              \A i \in DOMAIN queue[a] :
                  /\ queue[a][i].cmd = None
                  /\ \/ queue[a][i].instr \in Range(accepted[queue[a][i].sender])
                     \/ queue[a][i].instr \in swallowed /\ closed[queue[a][i].sender]
        /\ (pc[a] = "receive") <=> (cmd[a] # None)
        /\ pc[a] = "flush" => Unsent(a) # {}

\* C1 witness: a second receive is about to run after a batch of two sends
C1_Witness ==
    \E a \in Machines :
        /\ pc[a] = "receive"
        /\ Len(delivered[a]) >= 1
        /\ Len(queue[a]) >= 2

\* C2: the cmds handed to the task of a mailbox are, in order, the first
\* instructions the mailbox accepted
C2_MailboxFifo ==
    \A m \in Machines : IsPrefix(delivered[m] \o AtHand(m), accepted[m])

\* C2 witness: two instructions were delivered while a third waited behind
C2_Witness ==
    \E m \in Machines : Len(delivered[m]) >= 2 /\ mbox[m] # <<>>

\* C3: in sender.queue the completed sends are a prefix (send i is complete
\* before send j > i starts), the loop position is the first send not yet
\* completed, every SendContext was pushed by the latest receive, and two
\* instructions of the batch accepted by one mailbox are there in push order
C3_BatchInOrder ==
    \A a \in Machines :
        /\ \A i, j \in DOMAIN queue[a] :
              i < j /\ queue[a][j].cmd = None => queue[a][i].cmd = None
        /\ pc[a] = "flush" => Unsent(a) = idx[a] .. Len(queue[a])
        /\ \A i \in DOMAIN queue[a] : queue[a][i].by = Len(delivered[a])
        /\ \A i, j \in DOMAIN queue[a] :
              LET t == queue[a][i].sender
              IN  /\ i < j
                  /\ queue[a][j].sender = t
                  /\ queue[a][i].instr \in Range(accepted[t])
                  /\ queue[a][j].instr \in Range(accepted[t])
                  => \E x, y \in DOMAIN accepted[t] :
                        /\ x < y
                        /\ accepted[t][x] = queue[a][i].instr
                        /\ accepted[t][y] = queue[a][j].instr

\* C3 witness: a batch of two, the first send complete and the second not
C3_Witness ==
    \E a \in Machines :
        /\ pc[a] = "flush"
        /\ Len(queue[a]) = 2
        /\ queue[a][1].cmd = None
        /\ queue[a][2].cmd # None

\* C4: connected is called at most once; it has been called once the task
\* left its entry, so before any recv or receive; and the call waits for
\* nothing (it can be made whatever the mailbox holds)
C4_ConnectedOnce ==
    \A a \in Machines :
        /\ connectedCalls[a] <= 1
        /\ pc[a] # "spawned" => connectedCalls[a] = 1
        /\ pc[a] = "spawned" =>
              /\ connectedCalls[a] = 0
              /\ delivered[a] = <<>>
              /\ cmd[a] = None
              /\ ENABLED Connected(a)

\* C4 witness: connected was called for a mailbox that never got an instruction
C4_Witness ==
    \E a \in Machines :
        /\ connectedCalls[a] = 1
        /\ accepted[a] = <<>>
        /\ closed[a]
        /\ pc[a] = "done"

C6_CloseLosesNothing ==
    \A a \in Machines :
        pc[a] \in {"closing", "done"} =>
            /\ Range(atClose[a]) \subseteq Range(delivered[a])
            /\ delivered[a] = accepted[a]

\* C6 witness: the mailbox held two instructions when it was closed
C6_Witness ==
    \E a \in Machines :
        /\ pc[a] = "done"
        /\ Len(atClose[a]) >= 2

\* C7: an accepted instruction is delivered, at hand or still queued, each
\* once (accepted = delivered, then at hand, then queued); no instruction is
\* accepted twice; every instruction made so far is exactly one of: accepted
\* by one mailbox, waiting in one SendContext, or dropped because its target
\* was closed; and a completed send to an open target put its instruction
\* into that target
C7_ExactlyOnce ==
    /\ \A m \in Machines : accepted[m] = delivered[m] \o AtHand(m) \o mbox[m]
    /\ \A x \in 1 .. (nextId - 1) :
          LET inMailbox == {m \in Machines : x \in Range(accepted[m])}
              waiting == {<<a, i>> \in Machines \X (1 .. MaxBatch) :
                             i \in Unsent(a) /\ queue[a][i].cmd = x}
              dropped == IF x \in swallowed THEN 1 ELSE 0
          IN  /\ \A m \in inMailbox : Occurrences(accepted[m], x) = 1
              /\ Cardinality(inMailbox) + Cardinality(waiting) + dropped = 1
    /\ \A a \in Machines : \A i \in DOMAIN queue[a] :
          LET ctx == queue[a][i]
          IN  /\ ctx.cmd # None => ctx.cmd = ctx.instr
              /\ ctx.cmd = None /\ ~closed[ctx.sender] =>
                    Occurrences(accepted[ctx.sender], ctx.instr) = 1
              /\ ctx.instr \in swallowed => closed[ctx.sender]

\* C7 witness: a receive's send was accepted by its target and delivered there
C7_Witness ==
    \E a \in Machines : \E i \in DOMAIN queue[a] :
        /\ queue[a][i].cmd = None
        /\ queue[a][i].instr \in Range(delivered[queue[a][i].sender])
        /\ Len(delivered[a]) >= 1

(* ------------------------ ServiceState properties ---------------------- *)

\* C8: start returns Ok exactly when called in Init and then the state is
\* Started; run exactly in Started, giving Running; drain exactly in Running,
\* giving Draining; in every other state the call returns an error
C8_GuardedTransitions ==
    /\ svcOp = "start" =>
          /\ svcRes.ok <=> svcPre = "Init"
          /\ svcRes.ok => state = "Started"
    /\ svcOp = "run" =>
          /\ svcRes.ok <=> svcPre = "Started"
          /\ svcRes.ok => state = "Running"
    /\ svcOp = "drain" =>
          /\ svcRes.ok <=> svcPre = "Running"
          /\ svcRes.ok => state = "Draining"

\* C8 witness: drain succeeded, after start and run did
C8_Witness ==
    /\ svcOp = "drain"
    /\ svcRes.ok
    /\ state = "Draining"
    /\ calls = 3

\* C9: stop returns Ok exactly when called in a state other than Stopped and
\* then the state is Stopped; any operation called in Stopped returns an
\* error and leaves the state Stopped
C9_StopAndStopped ==
    /\ svcOp = "stop" =>
          /\ svcRes.ok <=> svcPre # "Stopped"
          /\ svcRes.ok => state = "Stopped"
    /\ svcOp # "none" /\ svcPre = "Stopped" => ~svcRes.ok /\ state = "Stopped"

\* C9 witness: stop was called on a stopped service
C9_Witness ==
    /\ svcOp = "stop"
    /\ svcPre = "Stopped"
    /\ ~svcRes.ok
    /\ state = "Stopped"

\* C10: no call, successful or not, moves the state to an earlier position
\* of (Init, Started, Running, Draining, Stopped)
C10_Monotonic == [][Index(state') >= Index(state)]_vars

\* C10 witness: a rejected call on a service that reached Draining
C10_Witness ==
    /\ state = "Draining"
    /\ svcPre = "Draining"
    /\ ~svcRes.ok

\* the state operation op would enter, and the callback and guard of op
Attempted(op) ==
    CASE op = "start" -> "Started"
      [] op = "run" -> "Running"
      [] op = "drain" -> "Draining"
      [] op = "stop" -> "Stopped"

CallbackOf(op) ==
    CASE op = "start" -> "will_start"
      [] op = "run" -> "will_run"
      [] op = "drain" -> "will_drain"
      [] op = "stop" -> "will_stop"

GuardOf(op, s) ==
    CASE op = "start" -> can_start(s)
      [] op = "run" -> can_run(s)
      [] op = "drain" -> can_drain(s)
      [] op = "stop" -> can_stop(s)

\* C11: a rejected call returns InvalidStateTransition(current, attempted):
\* current is the state the call found, attempted the state its operation
\* would have entered
C11_ErrorNamesTransition ==
    ~svcRes.ok => svcRes.curr = svcPre /\ svcRes.new = Attempted(svcOp)

\* C12: a rejected call leaves the ServiceState and calls no observer
C12_RejectedHasNoEffect ==
    [][calls' # calls /\ ~svcRes'.ok => state' = state /\ observer' = observer]_vars

\* C12 witness: a call given an observer was rejected in a state that is
\* not Stopped, after the observer had seen an earlier transition
C12_Witness ==
    /\ ~svcRes.ok
    /\ svcNotifier
    /\ svcPre = "Running"
    /\ state = "Running"
    /\ Len(observer) >= 1

\* C13: a successful call given an observer calls the callback of its
\* operation once, with the state the call found (for which the guard of
\* the operation holds); a call given no observer calls nothing
C13_ObserverSeesPreState ==
    [][calls' # calls /\ svcRes'.ok =>
          IF svcNotifier'
          THEN /\ observer' = Append(observer, <<CallbackOf(svcOp'), state>>)
               /\ GuardOf(svcOp', state)
               /\ state' = Attempted(svcOp')
          ELSE observer' = observer]_vars

\* C13 witness: the observer saw all four transitions of one lifecycle
C13_Witness ==
    /\ state = "Stopped"
    /\ svcRes.ok
    /\ observer = <<<<"will_start", "Init">>, <<"will_run", "Started">>,
                    <<"will_drain", "Running">>, <<"will_stop", "Draining">>>>

(* ------------------------ EchoService properties ----------------------- *)

\* C14: once start(), run(), drain() and stop() were called in that order
\* and the tasks they spawned have all run, the service state has passed
\* through Started, Running, Draining and Stopped, in that order
C14_LifecycleInOrder ==
    (\A op \in DOMAIN echo.task : echo.task[op] = "done") => echo.visited = ServiceStates

(* ---------------------- BackgroundTask properties ---------------------- *)

\* C15: once cancel() was called on a BackgroundTask, its supervisor's
\* select eventually completes and from then on the wrapped task is not
\* running: it was dropped at the suspension point it was at, or it had
\* completed by itself
C15_CancelDrops ==
    \A b \in BgTasks :
        (bg[b].cancels > 0) ~> [](bg[b].supervisor = "done" /\ bg[b].task # "running")

\* C15 witness: a task that was resumed, then cancelled through a handle
\* still held, was dropped by the supervisor
C15_Witness ==
    \E b \in BgTasks :
        /\ bg[b].handle = "held"
        /\ bg[b].cancels > 0
        /\ bg[b].steps > 0
        /\ bg[b].supervisor = "done"
        /\ bg[b].task = "dropped"

\* C16: a wrapped task whose BackgroundTask was dropped without a call of
\* cancel() is never dropped: it runs or has completed by itself
C16_DropDoesNotCancel ==
    \A b \in BgTasks :
        bg[b].handle = "dropped" /\ bg[b].cancels = 0 => bg[b].task # "dropped"

(* ----------------------- executor pool properties ---------------------- *)

\* C17: a worker thread that has found the broadcast channel closed (its
\* recv returned Err after stop_executors) has left its outer loop: it is
\* neither back at the head of the loop nor inside run again
C17_WorkersExit ==
    \A w \in DOMAIN pool.worker :
        pool.worker[w].sawClosed => pool.worker[w].pc = "exited"

\* C18: the seed values given out are 0, 1, 2, ... with none skipped or
\* given twice; the call that got seed value k returns executor k mod N; so
\* two calls less than N apart in that order return distinct executors
C18_RoundRobin ==
    /\ Len(pool.got) = pool.seed
    /\ \A c \in Callers :
          pool.caller[c].pc = "fetched" =>
              /\ pool.caller[c].next < pool.seed
              /\ ~pool.got[pool.caller[c].next + 1].done
    /\ \A c, d \in Callers :
          c # d /\ pool.caller[c].pc = "fetched" /\ pool.caller[d].pc = "fetched"
              => pool.caller[c].next # pool.caller[d].next
    /\ \A k \in 0 .. Len(pool.got) - 1 :
          \/ pool.got[k + 1].done /\ pool.got[k + 1].idx = k % pool.n
          \/ /\ ~pool.got[k + 1].done
             /\ \E c \in Callers :
                   pool.caller[c].pc = "fetched" /\ pool.caller[c].next = k
    /\ \A j, k \in 0 .. Len(pool.got) - 1 :
          /\ j < k
          /\ k - j < pool.n
          /\ pool.got[j + 1].done
          /\ pool.got[k + 1].done
          => pool.got[j + 1].idx # pool.got[k + 1].idx

\* C18 witness: with three executors, four calls made by two threads have
\* returned, and the fourth got the first executor again
C18_Witness ==
    /\ pool.n = 3
    /\ Len(pool.got) = 4
    /\ \A k \in DOMAIN pool.got : pool.got[k].done
    /\ pool.got[4].idx = 0

(* ------------------------- DaisyChain properties ----------------------- *)

\* what forwarder k of chain c is to receive in a run
ExpectedCount(c, k) == c.message_count * pow(c.forwarding_multiplier, k - 1)

\* what get_and_clear_received_count returned for forwarder k, or would return
CountOf(k) ==
    IF k <= Len(chain.counts) THEN chain.counts[k] ELSE chain.fwd[k].received_count

\* C19: a forwarder never counts more than message_count * f^(k-1) messages,
\* and once the run has completed (wait_for_notification returned) forwarder
\* k has counted exactly that many: message_count each when f = 1
C19_CounterConservation ==
    \A k \in 1 .. chain.machine_count :
        /\ CountOf(k) <= ExpectedCount(chain, k)
        /\ chain.driver.pc = "done" => CountOf(k) = ExpectedCount(chain, k)
        /\ chain.task[k].pc # "panicked"

\* C19 witness: a run of three machines with multiplier 2 has completed and
\* the test has read the counts 2, 4 and 8
C19_Witness ==
    /\ chain.driver.pc = "done"
    /\ chain.counts = <<2, 4, 8>>

RECURSIVE SumOver(_, _)
\* the sum of f[k] over the k of the finite set S
SumOver(f, S) ==
    IF S = {} THEN 0
    ELSE LET k == CHOOSE x \in S : TRUE IN f[k] + SumOver(f, S \ {k})

\* the instructions in the mailboxes of the chain
InMailboxes ==
    SumOver([k \in DOMAIN chain.mbox |-> Len(chain.mbox[k])], DOMAIN chain.mbox)

\* the instructions the adapter tasks hold in sender.queue, not yet sent
InSenderQueues ==
    SumOver([k \in DOMAIN chain.task |-> Len(chain.task[k].queue)], DOMAIN chain.task)

\* C23 as stated: with bounded mailboxes of capacity C, the instructions
\* resident in a chain of M machines (in its mailboxes and in the hands of
\* its adapter tasks) are never more than M * C
C23_ResidentAtMostMC ==
    chain.capacity # Unbounded =>
        InMailboxes + InSenderQueues <= chain.machine_count * chain.capacity

\* C23, amended: with bounded mailboxes of capacity C no mailbox holds more
\* than C instructions, so the mailboxes hold at most M * C; an adapter task
\* holds besides only the sends of the one instruction it is handling
\* (forwarding_multiplier of them, or the one notification of the last
\* forwarder), whatever the number of messages sent
C23_BoundedResident ==
    chain.capacity # Unbounded =>
        /\ \A k \in DOMAIN chain.mbox : Len(chain.mbox[k]) <= chain.capacity
        /\ InMailboxes <= chain.machine_count * chain.capacity
        /\ \A k \in DOMAIN chain.task :
              Len(chain.task[k].queue) <=
                  IF k < chain.machine_count THEN chain.forwarding_multiplier ELSE 1
        /\ InMailboxes + InSenderQueues <=
              chain.machine_count * chain.capacity
              + (chain.machine_count - 1) * chain.forwarding_multiplier + 1

\* C23 witness: during run every mailbox of a bounded chain is full and an
\* adapter task waits to send into a full mailbox, so that more than M * C
\* instructions are resident
C23_Witness ==
    /\ chain.capacity # Unbounded
    /\ chain.machine_count > 1
    /\ \A k \in DOMAIN chain.mbox : is_full(chain.mbox[k], chain.capacity)
    /\ \E k \in DOMAIN chain.task :
          /\ chain.task[k].pc = "flush"
          /\ Head(chain.task[k].queue).to # Notifier
    /\ chain.driver.pc = "run"
    /\ InMailboxes + InSenderQueues > chain.machine_count * chain.capacity

(* ------------------------- ChaosMonkey properties ---------------------- *)

\* the adapter task of forwarder k waits in recv on an empty mailbox
MonkeyIdle(k) == monkey.task[k].pc = "recv" /\ monkey.mbox[k] = <<>>

\* the adapter task of forwarder k waits in do_send on a full mailbox
MonkeyBlocked(k) ==
    /\ monkey.task[k].pc = "flush"
    /\ Head(monkey.task[k].queue).to # Notifier
    /\ is_full(monkey.mbox[Head(monkey.task[k].queue).to], monkey.capacity)

\* nothing of the run can go on: the task spawned by run has sent every
\* message or waits on full mailboxes, and every adapter task waits
MonkeysAtRest ==
    /\ monkey.driver.pc = "run"
    /\ \/ monkey.driver.sent = monkey.message_count
       \/ \A k \in 1 .. monkey.machine_count :
              is_full(monkey.mbox[k], monkey.capacity)
    /\ \A k \in DOMAIN monkey.task : MonkeyIdle(k) \/ MonkeyBlocked(k)

\* C21: a ChaosMonkey run, with bounded or unbounded mailboxes, goes on until
\* its completion: the notifier never counts more than message_count terminal
\* notifications, and when run waits for the completion and no task of the
\* mesh can take a step, the notifier has counted message_count of them and
\* the completion is in the driver's channel
C21_MonkeysTerminate ==
    /\ monkey.driver.pc = "run" =>
          monkey.fwd[monkey.machine_count + 1].received_count <= monkey.message_count
    /\ MonkeysAtRest =>
          /\ monkey.fwd[monkey.machine_count + 1].received_count = monkey.message_count
          /\ monkey.receiver # <<>>

\* C22: once small_chaos_monkey has read every forwarder after a completed
\* run, the sum of the received counts (the notifier's included) is
\* (inflection_value + 1) * 2 * message_count + message_count
C22_TotalReceived ==
    monkey.read = monkey.machine_count + 1 =>
        monkey.total = (monkey.inflection_value + 1) * 2 * monkey.message_count
                       + monkey.message_count

(* ------------------------ NetCore and NetController -------------------- *)

\* C24: the NetCore runs at most one NetController task: a controller is
\* spawned only by a start() that finds the state Init and leaves it Running;
\* once stop() has been called the command channel of the stored Sender is
\* closed, and after stop() the controller task, if there is one, ends
C24_OneController ==
    /\ [](net.spawned <= 1)
    /\ [][net.spawned' # net.spawned =>
            net.state = "Init" /\ net.state' = "Running"]_vars
    /\ [](net.state = "Stopped" /\ net.sender => net.closed)
    /\ (net.state = "Stopped") ~> (net.controller.pc \in {"none", "exited"})

\* C25: once the controller has handled CloseConn(conn_id) for a connection
\* in the slab, the entry of conn_id is freed: the slab has no connection for
\* conn_id, so that a later command for it finds none and the key can be
\* given out again
C25_CloseFreesEntry ==
    \A conn_id \in net.closing : conn_id \notin DOMAIN net.connections

\* the positions in the owner's mailbox of the NewConn the listeners sent
NewConns == {i \in DOMAIN net.owner : net.owner[i].cmd = "NewConn"}

\* C26: no two connections are given the same NetConnId while the first
\* still has its entry (no entry is ever evicted, so: no two NewConn carry
\* the same conn_id), each announced id is the key of a connection of its
\* own, and a listener between vacant_entry and insert holds a key no
\* connection has, with several listener tasks at work
C26_UniqueConnId ==
    /\ \A i, j \in NewConns : i # j => net.owner[i].conn_id # net.owner[j].conn_id
    /\ Cardinality(NewConns) = Cardinality(DOMAIN net.connections)
    /\ \A k \in DOMAIN net.servers :
          net.servers[k].pc = "insert" /\ net.servers[k].listener_task.task = "running"
              => net.servers[k].key \notin DOMAIN net.connections

\* C26 witness: two listener tasks have accepted a connection each: one has
\* inserted it and announced its id, the other holds the connections mutex
\* and the next key
C26_Witness ==
    /\ NewConns # {}
    /\ \E k, j \in DOMAIN net.servers :
          /\ k # j
          /\ net.servers[k].pc = "insert"
          /\ net.servers[k].listener_task.task = "running"
          /\ net.servers[k].key = 1
          /\ net.servers[j].pc = "accept"
          /\ net.servers[j].listener_task.task = "running"

RECURSIVE Received(_, _)
\* the bytes of the RecvBytes of conn_id in mailbox q, in order
Received(q, conn_id) ==
    IF q = <<>> THEN <<>>
    ELSE (IF Head(q).cmd = "RecvBytes" /\ Head(q).conn_id = conn_id
          THEN Head(q).bytes ELSE <<>>) \o Received(Tail(q), conn_id)

\* the positions in mailbox q of the CloseConn of conn_id
Closes(q, conn_id) ==
    {i \in DOMAIN q : q[i].cmd = "CloseConn" /\ q[i].conn_id = conn_id}

\* C27: the reader task of a connection sends CloseConn(conn_id) once to the
\* application and once to the listener's owner when it reads Ok(0) or Err,
\* and then ends (so both mailboxes hold one CloseConn if the task has ended
\* by itself and none otherwise, and no RecvBytes follows it); for a read of
\* n > 0 bytes it sends RecvBytes with exactly those n bytes and goes on, so
\* the bytes of its RecvBytes followed by what is still unread are what the
\* peer sent
C27_ReaderLoop ==
    \A conn_id \in DOMAIN net.connections :
        LET ended == IF net.connections[conn_id].recv_task.task = "done" THEN 1 ELSE 0
        IN  /\ Cardinality(Closes(net.app, conn_id)) = ended
            /\ Cardinality(Closes(net.owner, conn_id)) = ended
            /\ \A i \in Closes(net.app, conn_id) : \A j \in DOMAIN net.app :
                  net.app[j].cmd = "RecvBytes" /\ net.app[j].conn_id = conn_id
                      => j < i /\ Len(net.app[j].bytes) >= 1
            /\ Received(net.app, conn_id) \o net.connections[conn_id].unread = Payload

\* C27 witness: a reader task has read what the peer sent in two reads, has
\* then read Ok(0) from the open stream, and has ended
C27_Witness ==
    \E conn_id \in DOMAIN net.connections :
        /\ net.connections[conn_id].recv_task.task = "done"
        /\ net.connections[conn_id].stream = "open"
        /\ Received(net.app, conn_id) = Payload
        /\ Cardinality({j \in DOMAIN net.app : net.app[j].cmd = "RecvBytes"
                                               /\ net.app[j].conn_id = conn_id}) = 2

RECURSIVE Repeated(_, _)
\* q, n times over
Repeated(q, n) == IF n = 0 THEN <<>> ELSE q \o Repeated(q, n - 1)

\* C28: send_bytes writes every byte of its bytes once and in order, however
\* the writes are split: the stream has received the bytes of the SendBytes
\* done on it, and while one is in the loop what it has written followed by
\* what it still holds is its payload, remaining is the length of what it
\* holds, and the loop is left when that is 0
C28_SendBytesInOrder ==
    \A conn_id \in DOMAIN net.connections :
        LET conn == net.connections[conn_id]
        IN  IF net.controller.pc = "write" /\ net.controller.conn_id = conn_id
            THEN /\ conn.wire \o net.controller.bytes =
                        Repeated(Payload, conn.written + 1)
                 /\ net.controller.remaining = Len(net.controller.bytes)
                 /\ net.controller.remaining > 0
            ELSE conn.wire = Repeated(Payload, conn.written)

\* C28 witness: a write has taken a part of the bytes only, and the
\* controller is in the loop with the rest
C28_Witness ==
    /\ net.controller.pc = "write"
    /\ net.controller.remaining < Len(Payload)
    /\ net.connections[net.controller.conn_id].wire # <<>>

\* C29: a failed read or write on the stream of a connection ends that
\* connection only: CloseConn(conn_id) has gone to the application, and the
\* controller is not held up by it (it is not still in send_bytes for
\* conn_id) but goes on with the commands that follow
C29_FailureEndsOneConnection ==
    \A conn_id \in net.failed :
        /\ Closes(net.app, conn_id) # {}
        /\ ~(net.controller.pc = "write" /\ net.controller.conn_id = conn_id)

\* C30: when the controller task ends (Stop, or the command channel closed)
\* every listener task and every reader task it created is cancelled: the
\* channel of every listener's BackgroundTask is closed at once, that of
\* every reader's once the connections slab is dropped, and no listener or
\* reader task is left running in the end
C30_ExitCancelsTasks ==
    /\ [](net.controller.pc = "exited" =>
            \A k \in DOMAIN net.servers : net.servers[k].listener_task.closed)
    /\ [](net.dropped =>
            \A conn_id \in DOMAIN net.connections :
                net.connections[conn_id].recv_task.closed)
    /\ (net.controller.pc = "exited") ~>
            (/\ \A k \in DOMAIN net.servers :
                   net.servers[k].listener_task.task # "running"
             /\ \A conn_id \in DOMAIN net.connections :
                   net.connections[conn_id].recv_task.task # "running")

\* C30 witness: the controller has ended, and a listener task and the reader
\* task of a connection that no CloseConn was handled for have been dropped
C30_Witness ==
    /\ net.controller.pc = "exited"
    /\ \E k \in DOMAIN net.servers : net.servers[k].listener_task.task = "dropped"
    /\ \E conn_id \in DOMAIN net.connections :
          /\ conn_id \notin net.closing
          /\ net.connections[conn_id].recv_task.task = "dropped"

(* ------------------------- C31, C32: draining -------------------------- *)

\* the listener's task is about to take this NetCmd from its channel
Receiving(c) ==
    /\ echo.listener = "recv"
    /\ echo.receiver # <<>>
    /\ Head(echo.receiver) = c

\* C31: while the service is Draining a NewConn is refused: the listener's
\* task that takes it from the channel leaves the connection unbound and
\* closed. (Connections bound before stay bound: nothing removes a conn_id
\* from the bound ones.)
C31_DrainingRefuses ==
    [][\A c \in NetCmds :
          (Receiving(c) /\ c.cmd = "NewConn" /\ echo.state = "Draining"
             /\ echo'.receiver = Tail(echo.receiver))
          => /\ c.conn_id \notin echo'.bound
             /\ echo'.streams[c.conn_id] # "open"
             /\ echo.bound \subseteq echo'.bound]_vars

\* C32: is_drained() is true if and only if no accepted connection is open
C32_DrainedIffNoneOpen ==
    is_drained(echo) <=> (\A id \in DOMAIN echo.streams : echo.streams[id] # "open")

(* ------------------- C33: default_channel_max and capacity ------------- *)

\* C33: a mailbox made by create or extend has the capacity that
\* default_channel_max had when the call was made, one made by
\* create_with_capacity or extend_with_capacity the capacity it was given,
\* one made by create_unbounded or extend_unbounded none; and no later step
\* (a set_default_channel_max among them) changes the capacity of a mailbox
\* that exists
C33_CapacityAtCall ==
    /\ [](\A i \in DOMAIN foundation.channels :
            LET by == foundation.made[i].by
            IN  foundation.channels[i].capacity =
                   CASE by \in {"create", "extend"} -> foundation.made[i].loaded
                     [] by \in {"create_with_capacity", "extend_with_capacity"} ->
                           foundation.made[i].given
                     [] OTHER -> Unbounded)
    /\ [][\A i \in DOMAIN foundation.channels :
            foundation'.channels[i] = foundation.channels[i]]_vars

\* C33 witness: default_channel_max was set, create and extend made mailboxes
\* of that capacity, and default_channel_max was then set to another value
C33_Witness ==
    \E i, j \in DOMAIN foundation.channels :
        /\ foundation.made[i].by = "create"
        /\ foundation.made[j].by = "extend"
        /\ foundation.channels[j].machine = foundation.channels[i].machine
        /\ foundation.channels[i].capacity # DefaultChannelMax
        /\ foundation.channels[i].capacity # foundation.default_channel_max
        /\ foundation.channels[j].capacity # foundation.default_channel_max

(* ---------------- C34: the adapters of one machine --------------------- *)

C35_ClosedTargetSwallowed ==
    [][\A a \in Machines :
          (pc[a] = "flush" /\ idx'[a] # idx[a] /\ swallowed' # swallowed) =>
             /\ closed[queue[a][idx[a]].sender]
             /\ swallowed' = swallowed \cup {queue[a][idx[a]].instr}
             /\ idx'[a] = idx[a] + 1
             /\ \A i \in (idx[a] + 1) .. Len(queue[a]) :
                   queue'[a][i] = queue[a][i] /\ queue[a][i].cmd # None
             /\ pc'[a] = IF idx[a] < Len(queue[a]) THEN "flush" ELSE "recv"
             /\ UNCHANGED <<mbox, accepted, delivered, connectedCalls,
                            disconnectedCalls, closed>>]_vars

\* C35 witness: the first send of a batch of two was dropped because its
\* target was closed, the second was accepted by its open target, and the
\* adapter has since taken the next instruction from its own mailbox
C35_Witness ==
    \E a \in Machines :
        /\ Len(queue[a]) = 2
        /\ queue[a][1].instr \in swallowed
        /\ queue[a][2].instr \in Range(accepted[queue[a][2].sender])
        /\ pc[a] = "receive"
        /\ Len(delivered[a]) = queue[a][1].by

(* ---------------------- C39, C40: advance ------------------------------ *)

\* the message that advance leaves as it is
Terminal(msg) == msg.counter = 0 /\ msg.mutation = "Decrement"

\* C39: from counter 0 and Increment the terminal message (counter 0,
\* Decrement) is reached within 2 * max + 3 advances and is then kept;
\* can_advance is false exactly on the terminal message; advance gives the
\* terminal message back unchanged, and changes every other message
C39_AdvanceEnds ==
    /\ message.advances >= 2 * message.msg.max + 3 => Terminal(message.msg)
    /\ can_advance(message.msg) <=> ~Terminal(message.msg)
    /\ Terminal(message.msg) <=> advance(message.msg) = message.msg

\* C39 witness: a message with max 2 or more is terminal, after going up to
\* max and back, and was advanced once more since
C39_Witness ==
    /\ message.msg.max >= 2
    /\ Terminal(message.msg)
    /\ message.flips = <<message.msg.max>>
    /\ message.advances > 2 * message.msg.max + 1

\* C40: for every max >= 0 the counter stays within 0 .. max, and the
\* mutation changes once at most, from Increment to Decrement, at counter = max
C40_CounterWithinMax ==
    /\ message.msg.counter \in 0 .. message.msg.max
    /\ Len(message.flips) <= 1
    /\ \A i \in DOMAIN message.flips : message.flips[i] = message.msg.max
    /\ message.msg.mutation = "Decrement" <=> message.flips # <<>>

\* the step is one call of Forwarder::receive
ReceiveStep == forwarder'.receives = forwarder.receives + 1

\* the message is one that handle_config takes
IsConfig(msg) ==
    msg.type \in {"Notify", "AddSender", "ForwardingMultiplier", "RemoveAllSenders"}

NotifiedWith(q, m) == {i \in DOMAIN q : q[i].to = Notifier /\ q[i].msg = m}

\* C37: after an action that the Forwarder handled, TestData(received_count)
\* is sent to the notifier once if received_count is notify_count and a
\* notifier is registered, and not at all otherwise; with notify_count 0 the
\* notifier is sent nothing but the TestData(0) of a ChaosMonkey that cannot
\* advance; a configuration message sends nothing
C37_NotifiedAtCount ==
    [][ReceiveStep /\ ~forwarder'.panic =>
        LET msg  == forwarder'.last[1]
            new  == forwarder'.data
            q    == forwarder'.queue
        IN  IF IsConfig(msg)
            THEN q = <<>>
            ELSE /\ Cardinality(NotifiedWith(q, TestData(new.received_count))) =
                       IF new.received_count = new.notify_count
                          /\ new.notify_sender # <<>>
                       THEN 1 ELSE 0
                 /\ new.notify_count = 0 =>
                       \A i \in DOMAIN q :
                           q[i].to = Notifier =>
                               /\ q[i].msg = TestData(0)
                               /\ msg.type = "ChaosMonkey"
                               /\ ~can_advance(msg)]_vars

\* C37 witness: the second action or a later one brought received_count to
\* notify_count, and the notifier is sent TestData(received_count)
C37_Witness ==
    /\ forwarder.last # <<>>
    /\ ~IsConfig(forwarder.last[1])
    /\ ~forwarder.panic
    /\ forwarder.cleared = 0
    /\ forwarder.data.received_count >= 2
    /\ forwarder.data.received_count = forwarder.data.notify_count
    /\ NotifiedWith(forwarder.queue, TestData(forwarder.data.received_count)) # {}

\* once DaisyChainDriver::run has returned, every mailbox of the chain is
\* empty and every adapter task waits in recv: no receive can run while the
\* counters are read
DaisyChain_quiet ==
    chain.driver.pc = "done" =>
        \A k \in DOMAIN chain.task :
            /\ chain.mbox[k] = <<>>
            /\ chain.task[k] = [pc |-> "recv", queue |-> <<>>]
            /\ ~ENABLED ChainReceive(k)

\* C38: in a ChaosMonkey run, with the counters read after run has returned,
\* no call of Forwarder::receive finds the data mutex held: no adapter task
\* ends in the panic of the failed try_lock
C38_TryLockSucceeds ==
    \A k \in DOMAIN monkey.task : monkey.task[k].pc # "failed to acquire"

====
